---- MODULE Spec2Model ----
(***************************************************************************)
(* State-machine model of cgrates/fsock: the FreeSWITCH event-socket       *)
(* client.  FSConn (src/fsconn.go, second revision, lines 362-761) is the  *)
(* Session: one TCP connection, its reader goroutine, the reply channel,   *)
(* the error channel and the bgapi job map.  FSock (src/unnamed/part_001)  *)
(* is the Supervisor: the fsConn reference, its RWMutex, the watcher       *)
(* goroutine handleConnectionError and the reconnect loop.                 *)
(***************************************************************************)
EXTENDS Integers, Sequences, FiniteSets, TLC

(***************************************************************************)
(* Bounds of the model.                                                    *)
(***************************************************************************)
MaxSessions == 3   \* FSConn values ever constructed by one FSock
MaxCmds     == 2   \* SendCmd / SendBgapiCmd calls submitted
MaxEvents   == 1   \* plain events and malformed frames FreeSWITCH emits
MaxJobEvents == 2  \* BACKGROUND_JOB events FreeSWITCH emits
MaxOps      == 1   \* explicit Connect / Disconnect / ReconnectIfNeeded calls
MaxFails    == 1   \* network failures injected by the peer
NumCallers  == 1   \* host goroutines calling into the FSock
MaxFSocks   == 2   \* maxFSocks: the capacity of the pool
MaxMade     == 3   \* FSocks one pool constructs
NumPoolCallers == 2 \* host goroutines calling into the pool
MaxStrayNil == 1   \* PushFSock(nil) calls no lost permit stands behind
MaxFilters  == 2   \* filter values given to NewFSConn
MaxKeys     == 3   \* keys of the handlers given to eventsPlain
MaxConnects == 3   \* connects of one FSock that get to filterEvents
MaxFilterVals == 2 \* values the caller gives for one filter header
MaxHandlers == 2   \* handlers registered under one key
MaxLen      == 4   \* characters of a string given to splitIgnoreGroups
MaxDelays   == 2   \* values of one backoff generator that are told apart
MaxLines    == 3   \* lines of a header block given to readEvents

Sessions == 1..MaxSessions
Callers  == (MaxSessions + 1)..(MaxSessions + NumCallers)
Threads  == Sessions \cup Callers      \* a watcher is named by its session
UUIDs    == 1..MaxCmds                 \* genUUID: a fresh Job-UUID per submission,
                                       \* here the number of the command
JobIds   == 0..MaxCmds                 \* 0: a Job-UUID the client never generated

\* reconnects values an FSock is constructed with (-1: unbounded)
ReconnectsSet == {-1, 0, 1, 2}
\* replyTimeout values (0: wait without bound)
ReplyTimeoutSet == {0, 1}
\* maxReconnectInterval values, in seconds
MaxReconnectIntervalSet == {5}

VARIABLES
    cfg,        \* FSock.reconnects, FSock.replyTimeout
    fsConn,     \* FSock.fsConn: 0 is nil, else the session
    mu,         \* FSock.mu: [w: writer or 0, r: set of read holders]
    nSess,      \* sessions constructed so far
    conn,       \* FSConn.conn per session: "none" | "open" | "closed"
    peer,       \* per session: "up", "failed" (reads will fail) or "down"
    wire,       \* per session: frames written by FreeSWITCH, not yet read
    sent,       \* per session: commands written by the client, not yet answered
    rdr,        \* per session: the readEvents goroutine
    bgapiChan,  \* FSConn.bgapiChan per session: Job-UUID -> channel (0: absent)
    bgapiMux,   \* FSConn.bgapiMux per session: TRUE when held
    bg,         \* the doBackgroundJob goroutines
    th,         \* per thread (caller or watcher): program counter and locals
    ret,        \* per caller: what its last call returned
    stopError,  \* values received on FSock.stopError, in order
    chanRecv,   \* per job channel: values received from it by the host
    chans,      \* per job channel: the session whose SendBgapiCmd returned it,
                \* 0 while the host does not have it
    evLog,      \* BACKGROUND_JOB events read, in order: [s, uuid, body]
    cnt,        \* counters: commands, events, operations, failures
    explicitDisc, \* TRUE from an explicit Disconnect until a caller connects
    pool,       \* the *FSockPool: its fields, nil |-> TRUE for a nil pool
    allowedConns, \* FSockPool.allowedConns: the permits in the channel
    fSocks,     \* FSockPool.fSocks: the idle FSocks in the channel, in order
    fsocks,     \* the FSocks the pool constructed: parameters, Connected()
    pth,        \* per pool caller: position in PopFSock / PushFSock, FSocks held
    pcnt,       \* counters of the pool's callers
    hs,         \* one call of NewFSConn: its position, the FSConn it builds
    call,       \* a function taken alone: its arguments and what it did
    hnd         \* the handler goroutines dispatchEvent started, still running

poolVars == <<pool, allowedConns, fSocks, fsocks, pth, pcnt>>

vars == <<poolVars, hs, call, hnd, cfg, fsConn, mu, nSess, conn, peer, wire, sent, rdr, bgapiChan,
          bgapiMux, bg, th, ret, stopError, chanRecv, chans, evLog, cnt,
          explicitDisc>>

(***************************************************************************)
(* Texts are sequences of tokens; errors are texts, nil is the empty one.  *)
(***************************************************************************)
Nil == <<>>
EOF == <<"EOF">>
ErrClosed == <<"use of closed network connection">>
ErrNotConnected == <<"not connected to FreeSWITCH">>
ErrDeadline == <<"context deadline exceeded">>
ErrDial == <<"dial tcp">>
ErrWrite == <<"write">>
ErrContentLength == <<"invalid Content-Length header">>

IsSpace(tok) == tok \in {" ", "\n"}

RECURSIVE TrimLeft(_)
TrimLeft(txt) ==
    IF txt # <<>> /\ IsSpace(Head(txt)) THEN TrimLeft(Tail(txt)) ELSE txt

RECURSIVE TrimRight(_)
TrimRight(txt) ==
    IF txt # <<>> /\ IsSpace(txt[Len(txt)])
    THEN TrimRight(SubSeq(txt, 1, Len(txt) - 1)) ELSE txt

\* strings.TrimSpace
TrimSpace(txt) == TrimLeft(TrimRight(txt))

\* strings.Contains(txt, tok) for a one-token needle
Contains(txt, tok) == \E i \in 1..Len(txt) : txt[i] = tok

(***************************************************************************)
(* Frames on the wire.  hdr is the Content-Type of the header block, cl    *)
(* says whether the block has a Content-Length header and whether it       *)
(* parses, txt is the Reply-Text header value (command/reply) or the body  *)
(* (api/response), cmd is the command FreeSWITCH emitted the frame for,    *)
(* name, uuid and body are an event's Event-Name, Job-UUID and EvBody.     *)
(***************************************************************************)
NoFrame == [hdr |-> "none", cl |-> "none", txt |-> <<>>, cmd |-> 0,
            name |-> "", uuid |-> 0, body |-> 0]

CommandReply(c, txt) ==
    [NoFrame EXCEPT !.hdr = "command/reply", !.txt = txt, !.cmd = c]

ApiResponse(c, txt) ==
    [NoFrame EXCEPT !.hdr = "api/response", !.cl = "ok", !.txt = txt, !.cmd = c]

\* a BACKGROUND_JOB event with Job-UUID u and body (EvBody) b
JobEvent(u, b) ==
    [NoFrame EXCEPT !.hdr = "text/event-plain", !.cl = "ok",
                    !.name = "BACKGROUND_JOB", !.uuid = u, !.body = b]

\* any other event
PlainEvent ==
    [NoFrame EXCEPT !.hdr = "text/event-plain", !.cl = "ok", !.name = "HEARTBEAT"]

\* a header block whose Content-Length is not a number
BadFrame ==
    [NoFrame EXCEPT !.hdr = "text/event-plain", !.cl = "bad"]

\* what FreeSWITCH may answer to command c
ReplyFrames(c) ==
    { CommandReply(c, <<" ", "+OK">>),
      CommandReply(c, <<" ", "-ERR", " ", "invalid", " ">>),
      ApiResponse(c, <<"+OK", "\n">>),
      ApiResponse(c, <<"-ERR", " ", "invalid", "\n">>) }

\* read errors the network reports: io.EOF, and net.OpError values
NetErrs == {"EOF", "timeout", "ECONNRESET", "EIO"}
IsOpError(e) == e \in {"timeout", "ECONNRESET", "EIO", "closed"}
ErrText(e) == IF e = "closed" THEN ErrClosed ELSE <<e>>

\* headerVal(hdr, "Reply-Text"): the value after ": ", trimmed
headerVal(f) == TrimSpace(f.txt)

\* the backoff generator of a reconnect cycle: the arguments the factory
\* delayFunc was called with, and how many values have been taken from it
\* (MaxDelays stands for that many or more)
NoDelay == [min |-> 0, max |-> 0, n |-> 0]
NewDelay(min, max) == [min |-> min, max |-> max, n |-> 0]
Advanced(d) == [d EXCEPT !.n = IF @ < MaxDelays THEN @ + 1 ELSE @]

NoThread == [pc |-> "none", op |-> "none", cmd |-> 0, sess |-> 0, i |-> 0,
             err |-> Nil, rerr |-> Nil, delay |-> NoDelay]
IdleCaller == [NoThread EXCEPT !.pc = "idle"]
NewWatcher == [NoThread EXCEPT !.pc = "wait"]

NoRet == [op |-> "none", cmd |-> 0, val |-> <<>>, err |-> Nil, ch |-> 0]
Exited == [NoThread EXCEPT !.pc = "done"]

\* the handler goroutines there may be
Handlers == [s : Sessions, ev : 1..MaxEvents, evs : 0..MaxJobEvents,
             cmds : 0..MaxCmds]

\* a doBackgroundJob goroutine: the session and the event it was started
\* for, its position, and the channel it found in the job map
Completers == [s : Sessions, uuid : JobIds, body : 1..MaxJobEvents,
               pc : {"start", "send"}, ch : 0..MaxCmds]

NoReader == [pc |-> "none", f |-> NoFrame, err |-> Nil]
NewReader == [NoReader EXCEPT !.pc = "hdr"]

\* a nil *FSockPool
NilPool == [nil |-> TRUE, maxFSocks |-> 0, maxReconnectInterval |-> 0,
            replyTimeout |-> 0]

\* an FSock that no pool constructed
NoPool ==
    /\ pool = NilPool
    /\ allowedConns = 0
    /\ fSocks = <<>>
    /\ fsocks = <<>>
    /\ pth = <<>>
    /\ pcnt = <<>>

\* no function is taken alone
NoCall == [fn |-> "none"]

\* NewFSConn is not running
NoNewFSConn == [pc |-> "none", conn |-> "none", sent |-> <<>>, rcvd |-> <<>>,
                readers |-> 0, evFilters |-> 0, bgapi |-> FALSE, todo |-> 0,
                ret |-> [fsConn |-> FALSE, err |-> Nil]]

(***************************************************************************)
(* Init: the state NewFSock returns in: Connect succeeded, session 1 is    *)
(* connected, its reader and its watcher run.                              *)
(***************************************************************************)
Init ==
    /\ cfg \in [reconnects : ReconnectsSet, replyTimeout : ReplyTimeoutSet,
               maxReconnectInterval : MaxReconnectIntervalSet]
    /\ fsConn = 1
    /\ mu = [w |-> 0, r |-> {}]
    /\ nSess = 1
    /\ conn = [s \in Sessions |-> IF s = 1 THEN "open" ELSE "none"]
    /\ peer = [s \in Sessions |-> "up"]
    /\ wire = [s \in Sessions |-> <<>>]
    /\ sent = [s \in Sessions |-> <<>>]
    /\ rdr = [s \in Sessions |-> IF s = 1 THEN NewReader ELSE NoReader]
    /\ bgapiChan = [s \in Sessions |-> [u \in JobIds |-> 0]]
    /\ bgapiMux = [s \in Sessions |-> FALSE]
    /\ bg = {}
    /\ th = [t \in Threads |->
                IF t \in Callers THEN IdleCaller
                ELSE IF t = 1 THEN NewWatcher ELSE NoThread]
    /\ ret = [t \in Callers |-> NoRet]
    /\ stopError = <<>>
    /\ chanRecv = [u \in UUIDs |-> <<>>]
    /\ chans = [u \in UUIDs |-> 0]
    /\ evLog = <<>>
    /\ cnt = [cmds |-> 0, events |-> 0, jobEvents |-> 0, ops |-> 0, fails |-> 0]
    /\ explicitDisc = FALSE
    /\ NoPool
    /\ hs = NoNewFSConn
    /\ call = NoCall
    /\ hnd = {}

(***************************************************************************)
(* FreeSWITCH and the network.                                             *)
(***************************************************************************)
Up(s) == conn[s] = "open" /\ peer[s] = "up"

\* A frame is put on the wire at the moment it becomes the reader's next
\* frame: the reader is there to read it and has read all earlier ones.  A
\* frame sent before the connection failed may still arrive after.
Reading(s) ==
    /\ conn[s] = "open" /\ peer[s] \in {"up", "failed"}
    /\ rdr[s].pc \in {"hdr", "body", "pubReply"}
    /\ wire[s] = <<>>

\* FreeSWITCH answers the oldest unanswered command of the connection
ServerReply(s) ==
    /\ Reading(s)
    /\ sent[s] # <<>>
    /\ \E f \in ReplyFrames(Head(sent[s])) :
          wire' = [wire EXCEPT ![s] = Append(@, f)]
    /\ sent' = [sent EXCEPT ![s] = Tail(@)]
    /\ UNCHANGED <<poolVars, hs, call, hnd, cfg, fsConn, mu, nSess, conn, peer, rdr, bgapiChan, bgapiMux,
                   bg, th, ret, stopError, chanRecv, chans, evLog, cnt,
                   explicitDisc>>

\* the bgapi command carrying Job-UUID u has been written to a socket
Submitted(u) ==
    /\ u <= cnt.cmds
    /\ \A t \in Callers : th[t].cmd = u => th[t].pc = "send_wait"

\* FreeSWITCH emits a BACKGROUND_JOB event; its Job-UUID is one it was given
\* in a command, or one this client never generated
ServerJobEvent(s) ==
    /\ Reading(s)
    /\ cnt.jobEvents < MaxJobEvents
    /\ \E u \in JobIds :
          /\ u # 0 => Submitted(u)
          /\ wire' = [wire EXCEPT ![s] = Append(@, JobEvent(u, cnt.jobEvents + 1))]
    /\ cnt' = [cnt EXCEPT !.jobEvents = @ + 1]
    /\ UNCHANGED <<poolVars, hs, call, hnd, cfg, fsConn, mu, nSess, conn, peer, sent, rdr, bgapiChan,
                   bgapiMux, bg, th, ret, stopError, chanRecv, chans, evLog,
                   explicitDisc>>

\* FreeSWITCH emits some other event
ServerEvent(s) ==
    /\ Reading(s)
    /\ cnt.events < MaxEvents
    /\ wire' = [wire EXCEPT ![s] = Append(@, PlainEvent)]
    /\ cnt' = [cnt EXCEPT !.events = @ + 1]
    /\ UNCHANGED <<poolVars, hs, call, hnd, cfg, fsConn, mu, nSess, conn, peer, sent, rdr, bgapiChan,
                   bgapiMux, bg, th, ret, stopError, chanRecv, chans, evLog,
                   explicitDisc>>

\* a frame whose Content-Length header is not a number
ServerBadFrame(s) ==
    /\ Reading(s)
    /\ cnt.events < MaxEvents
    /\ wire' = [wire EXCEPT ![s] = Append(@, BadFrame)]
    /\ cnt' = [cnt EXCEPT !.events = @ + 1]
    /\ UNCHANGED <<poolVars, hs, call, hnd, cfg, fsConn, mu, nSess, conn, peer, sent, rdr, bgapiChan,
                   bgapiMux, bg, th, ret, stopError, chanRecv, chans, evLog,
                   explicitDisc>>

\* the connection fails: the client's next read past the data reports an error
ServerFail(s) ==
    /\ Up(s)
    /\ cnt.fails < MaxFails
    /\ peer' = [peer EXCEPT ![s] = "failed"]
    /\ cnt' = [cnt EXCEPT !.fails = @ + 1]
    /\ UNCHANGED <<poolVars, hs, call, hnd, cfg, fsConn, mu, nSess, conn, wire, sent, rdr, bgapiChan,
                   bgapiMux, bg, th, ret, stopError, chanRecv, chans, evLog,
                   explicitDisc>>

(***************************************************************************)
(* The reader goroutine of a session: readEvents / readEvent.              *)
(***************************************************************************)
\* readHeaders' classification of a failed ReadBytes
readHeadersErr(e) ==
    IF ~IsOpError(e) \/ e = "timeout" \/ e = "ECONNRESET" THEN EOF ELSE ErrText(e)

\* readBody's classification of a failed ReadFull
readBodyErr(e) == EOF

\* the errors a blocked read of session s may report: the client closed the
\* socket, or the connection failed and the data before the failure is read
PendingReadErrs(s) ==
    IF conn[s] = "closed" THEN {"closed"}
    ELSE IF peer[s] # "up" /\ (rdr[s].pc = "body" \/ wire[s] = <<>>) THEN NetErrs
    ELSE {}

\* dispatchEvent calling the handler itself: the reader goes on when the
\* handler has returned
dispatchEventWaits(s, f) ==
    IF f.name = "BACKGROUND_JOB"
    THEN /\ bg' = bg \cup {[s |-> s, uuid |-> f.uuid, body |-> f.body,
                            pc |-> "start", ch |-> 0]}
         /\ evLog' = Append(evLog, [s |-> s, uuid |-> f.uuid, body |-> f.body])
         /\ rdr' = [rdr EXCEPT ![s] = NewReader]
         /\ UNCHANGED hnd
    ELSE /\ hnd' = hnd \cup {[s |-> s, ev |-> cnt.events, evs |-> Len(evLog),
                              cmds |-> cnt.cmds]}
         /\ rdr' = [rdr EXCEPT ![s] = [pc |-> "handler", f |-> f, err |-> Nil]]
         /\ UNCHANGED <<bg, evLog>>

\* dispatchEvent: a BACKGROUND_JOB event forks doBackgroundJob; any other
\* event forks the handler registered for it, which the reader does not wait
\* for.  A handler goroutine is named by its session and the number of its
\* event; it keeps the numbers of BACKGROUND_JOB events read and of commands
\* submitted when it started.
dispatchEvent(s, f) ==
    /\ IF f.name = "BACKGROUND_JOB"
       THEN /\ bg' = bg \cup {[s |-> s, uuid |-> f.uuid, body |-> f.body,
                               pc |-> "start", ch |-> 0]}
            /\ evLog' = Append(evLog, [s |-> s, uuid |-> f.uuid, body |-> f.body])
            /\ UNCHANGED hnd
       ELSE /\ hnd' = hnd \cup {[s |-> s, ev |-> cnt.events, evs |-> Len(evLog),
                                 cmds |-> cnt.cmds]}
            /\ UNCHANGED <<bg, evLog>>
    /\ rdr' = [rdr EXCEPT ![s] = NewReader]

\* the switch of readEvents on a frame read without error
routeFrame(s, f) ==
    IF f.hdr = "api/response"
    THEN /\ rdr' = [rdr EXCEPT ![s] = [pc |-> "pubReply", f |-> f, err |-> Nil]]
         /\ UNCHANGED <<bg, evLog, hnd>>
    ELSE IF f.hdr = "command/reply"
    THEN /\ rdr' = [rdr EXCEPT ![s] = [pc |-> "pubReply",
                                       f |-> [f EXCEPT !.txt = headerVal(f)],
                                       err |-> Nil]]
         /\ UNCHANGED <<bg, evLog, hnd>>
    ELSE IF f.cl = "ok"
    THEN dispatchEvent(s, f)
    ELSE /\ rdr' = [rdr EXCEPT ![s] = NewReader]
         /\ UNCHANGED <<bg, evLog, hnd>>

\* readEvent: the header block is read; a body is awaited if it announces one
readHeaders(s) ==
    /\ rdr[s].pc = "hdr"
    /\ wire[s] # <<>>
    /\ LET f == Head(wire[s]) IN
         /\ wire' = [wire EXCEPT ![s] = Tail(@)]
         /\ IF f.cl = "none" THEN routeFrame(s, f)
            ELSE IF f.cl = "bad"
            THEN /\ rdr' = [rdr EXCEPT ![s] = [pc |-> "pubErr", f |-> NoFrame,
                                               err |-> ErrContentLength]]
                 /\ UNCHANGED <<bg, evLog, hnd>>
            ELSE /\ rdr' = [rdr EXCEPT ![s] = [pc |-> "body", f |-> f, err |-> Nil]]
                 /\ UNCHANGED <<bg, evLog, hnd>>
    /\ UNCHANGED <<poolVars, hs, call, cfg, fsConn, mu, nSess, conn, peer, sent, bgapiChan, bgapiMux,
                   th, ret, stopError, chanRecv, chans, cnt, explicitDisc>>

\* readBody returns the announced bytes
readBody(s) ==
    /\ rdr[s].pc = "body"
    /\ routeFrame(s, rdr[s].f)
    /\ UNCHANGED <<poolVars, hs, call, cfg, fsConn, mu, nSess, conn, peer, wire, sent, bgapiChan,
                   bgapiMux, th, ret, stopError, chanRecv, chans, cnt,
                   explicitDisc>>

\* a read fails: readHeaders / readBody close the socket and return the error,
\* which readEvents then offers on the error channel
readFails(s) ==
    /\ rdr[s].pc \in {"hdr", "body"}
    /\ \E e \in PendingReadErrs(s) :
          rdr' = [rdr EXCEPT ![s] =
                    [pc |-> "pubErr", f |-> NoFrame,
                     err |-> IF rdr[s].pc = "hdr"
                             THEN readHeadersErr(e) ELSE readBodyErr(e)]]
    /\ conn' = [conn EXCEPT ![s] = "closed"]
    \* nothing is read from or answered on this connection any more
    /\ peer' = [peer EXCEPT ![s] = "down"]
    /\ wire' = [wire EXCEPT ![s] = <<>>]
    /\ sent' = [sent EXCEPT ![s] = <<>>]
    /\ UNCHANGED <<poolVars, hs, call, hnd, cfg, fsConn, mu, nSess, bgapiChan, bgapiMux,
                   bg, th, ret, stopError, chanRecv, chans, evLog, cnt,
                   explicitDisc>>

\* a handler goroutine returns
handlerReturns(h) ==
    /\ h \in hnd
    /\ hnd' = hnd \ {h}
    /\ UNCHANGED <<poolVars, hs, call, cfg, fsConn, mu, nSess, conn, peer, wire, sent, rdr,
                   bgapiChan, bgapiMux, bg, th, ret, stopError, chanRecv, chans,
                   evLog, cnt, explicitDisc>>

(***************************************************************************)
(* doBackgroundJob goroutines and the host reading a job channel.          *)
(***************************************************************************)
\* doBackgroundJob without its delete(fsConn.bgapiChan, jobUUID)
doBackgroundJobKeepsEntry(j) ==
    /\ j \in bg /\ j.pc = "start"
    /\ ~bgapiMux[j.s]
    /\ LET out == bgapiChan[j.s][j.uuid] IN
         IF out = 0
         THEN /\ bg' = bg \ {j}
              /\ UNCHANGED <<bgapiChan, bgapiMux>>
         ELSE /\ bgapiMux' = [bgapiMux EXCEPT ![j.s] = TRUE]
              /\ bg' = (bg \ {j}) \cup {[j EXCEPT !.pc = "send", !.ch = out]}
              /\ UNCHANGED bgapiChan
    /\ UNCHANGED <<poolVars, hs, call, hnd, cfg, fsConn, mu, nSess, conn, peer, wire, sent, rdr, th, ret,
                   stopError, chanRecv, chans, evLog, cnt, explicitDisc>>

\* doBackgroundJob sending on the channel named by the Job-UUID when the job
\* map has no entry
doBackgroundJobSendsUnregistered(j) ==
    /\ j \in bg /\ j.pc = "start"
    /\ ~bgapiMux[j.s]
    /\ LET out == bgapiChan[j.s][j.uuid] IN
         IF out = 0
         THEN /\ bgapiMux' = [bgapiMux EXCEPT ![j.s] = TRUE]
              /\ bg' = (bg \ {j}) \cup {[j EXCEPT !.pc = "send", !.ch = j.uuid]}
              /\ UNCHANGED bgapiChan
         ELSE /\ bgapiChan' = [bgapiChan EXCEPT ![j.s][j.uuid] = 0]
              /\ bgapiMux' = [bgapiMux EXCEPT ![j.s] = TRUE]
              /\ bg' = (bg \ {j}) \cup {[j EXCEPT !.pc = "send", !.ch = out]}
    /\ UNCHANGED <<poolVars, hs, call, hnd, cfg, fsConn, mu, nSess, conn, peer, wire, sent, rdr, th, ret,
                   stopError, chanRecv, chans, evLog, cnt, explicitDisc>>

\* doBackgroundJob up to its send: lock, look up, delete
doBackgroundJob(j) ==
    /\ j \in bg /\ j.pc = "start"
    /\ ~bgapiMux[j.s]
    /\ LET out == bgapiChan[j.s][j.uuid] IN
         IF out = 0
         THEN /\ bg' = bg \ {j}
              /\ UNCHANGED <<bgapiChan, bgapiMux>>
         ELSE /\ bgapiChan' = [bgapiChan EXCEPT ![j.s][j.uuid] = 0]
              /\ bgapiMux' = [bgapiMux EXCEPT ![j.s] = TRUE]
              /\ bg' = (bg \ {j}) \cup {[j EXCEPT !.pc = "send", !.ch = out]}
    /\ UNCHANGED <<poolVars, hs, call, hnd, cfg, fsConn, mu, nSess, conn, peer, wire, sent, rdr, th, ret,
                   stopError, chanRecv, chans, evLog, cnt, explicitDisc>>

\* the send out <- evMap[EvBody] meets the host's receive; the deferred
\* Unlock of bgapiMux follows
jobDelivered(j) ==
    /\ j \in bg /\ j.pc = "send"
    /\ chans[j.ch] # 0
    /\ chanRecv' = [chanRecv EXCEPT ![j.ch] =
                      Append(@, [body |-> j.body, uuid |-> j.uuid, s |-> j.s])]
    /\ bgapiMux' = [bgapiMux EXCEPT ![j.s] = FALSE]
    /\ bg' = bg \ {j}
    /\ UNCHANGED <<poolVars, hs, call, hnd, cfg, fsConn, mu, nSess, conn, peer, wire, sent, rdr, bgapiChan,
                   th, ret, stopError, chans, evLog, cnt, explicitDisc>>

(***************************************************************************)
(* FSock: connect, disconnect and the reconnect loop, run by a caller      *)
(* holding the write lock or by a watcher holding the read lock.           *)
(***************************************************************************)
\* connect(): NewFSConn dials and shakes hands (ok says whether it succeeds),
\* its result is stored in fs.fsConn, and on success the reader and the
\* watcher of the new session are started.  me is thread t's next state.
connect(t, ok, me) ==
    IF ok
    THEN LET s == nSess + 1 IN
         /\ fsConn' = s
         /\ nSess' = s
         /\ conn' = [conn EXCEPT ![s] = "open"]
         /\ rdr' = [rdr EXCEPT ![s] = NewReader]
         /\ th' = [th EXCEPT ![t] = me, ![s] = NewWatcher]
    ELSE /\ fsConn' = 0
         /\ th' = [th EXCEPT ![t] = me]
         /\ UNCHANGED <<nSess, conn, rdr>>

\* disconnect(): closes the current session's socket and nils the reference
disconnect ==
    IF fsConn # 0
    THEN /\ conn' = [conn EXCEPT ![fsConn] = "closed"]
         /\ fsConn' = 0
    ELSE UNCHANGED <<conn, fsConn>>

\* the loop condition without the bound
MayAttemptUnbounded(t) == TRUE

\* the loop condition with <= in place of <
MayAttemptOnceMore(t) == cfg.reconnects = -1 \/ th[t].i <= cfg.reconnects

\* the loop condition of reconnectIfNeeded
MayAttempt(t) == cfg.reconnects = -1 \/ th[t].i < cfg.reconnects

\* reconnectIfNeeded: the connected() test on entry
reconnectIfNeeded(t) ==
    /\ th[t].pc = "rc"
    /\ th' = [th EXCEPT ![t] =
                IF fsConn # 0
                THEN [@ EXCEPT !.pc = "rc_done", !.err = Nil]
                ELSE [@ EXCEPT !.pc = "rc_loop", !.err = Nil, !.i = 0,
                               !.delay = NewDelay(1, cfg.maxReconnectInterval)]]
    /\ UNCHANGED <<poolVars, hs, call, hnd, cfg, fsConn, mu, nSess, conn, peer, wire, sent, rdr, bgapiChan,
                   bgapiMux, bg, ret, stopError, chanRecv, chans, evLog, cnt,
                   explicitDisc>>

\* a turn of the loop that sleeps delay() after a connect() that succeeded too
reconnectAttemptSleepsAlways(t) ==
    /\ th[t].pc = "rc_loop"
    /\ MayAttempt(t)
    /\ \E ok \in BOOLEAN :
          /\ ok => nSess < MaxSessions
          /\ connect(t, ok,
                IF ok
                THEN [th[t] EXCEPT !.pc = "rc_done", !.err = Nil,
                                   !.delay = Advanced(@)]
                ELSE [th[t] EXCEPT !.err = ErrDial,
                                   !.i = IF cfg.reconnects = -1 THEN @ ELSE @ + 1,
                                   !.delay = Advanced(@)])
    /\ UNCHANGED <<poolVars, hs, call, hnd, cfg, mu, peer, wire, sent, bgapiChan, bgapiMux, bg, ret,
                   stopError, chanRecv, chans, evLog, cnt, explicitDisc>>

\* reconnectIfNeeded: one turn of the loop, a connect() and, when it failed,
\* the sleep of delay() and the increment
reconnectAttempt(t) ==
    /\ th[t].pc = "rc_loop"
    /\ MayAttempt(t)
    /\ \E ok \in BOOLEAN :
          /\ ok => nSess < MaxSessions
          /\ connect(t, ok,
                IF ok
                THEN [th[t] EXCEPT !.pc = "rc_done", !.err = Nil]
                ELSE [th[t] EXCEPT !.err = ErrDial,
                                   !.i = IF cfg.reconnects = -1 THEN @ ELSE @ + 1,
                                   !.delay = Advanced(@)])
    /\ UNCHANGED <<poolVars, hs, call, hnd, cfg, mu, peer, wire, sent, bgapiChan, bgapiMux, bg, ret,
                   stopError, chanRecv, chans, evLog, cnt, explicitDisc>>

\* reconnectIfNeeded: the loop ran out; nil becomes "not connected"
reconnectGiveUp(t) ==
    /\ th[t].pc = "rc_loop"
    /\ ~MayAttempt(t)
    /\ th' = [th EXCEPT ![t] =
                [@ EXCEPT !.pc = "rc_done",
                          !.err = IF @ = Nil /\ fsConn = 0
                                  THEN ErrNotConnected ELSE @]]
    /\ UNCHANGED <<poolVars, hs, call, hnd, cfg, fsConn, mu, nSess, conn, peer, wire, sent, rdr, bgapiChan,
                   bgapiMux, bg, ret, stopError, chanRecv, chans, evLog, cnt,
                   explicitDisc>>

(***************************************************************************)
(* The watcher goroutine of a session: handleConnectionError.              *)
(***************************************************************************)
\* the receive from connErr, with a reader that reads on after its send
watcherReceivesReaderReadsOn(s) ==
    /\ th[s].pc = "wait"
    /\ rdr[s].pc = "pubErr"
    /\ rdr' = [rdr EXCEPT ![s] = NewReader]
    /\ th' = [th EXCEPT ![s] =
                [@ EXCEPT !.rerr = rdr[s].err,
                          !.pc = IF rdr[s].err # EOF THEN "sig_nil" ELSE "rlock"]]
    /\ UNCHANGED <<poolVars, hs, call, hnd, cfg, fsConn, mu, nSess, conn, peer, wire, sent, bgapiChan,
                   bgapiMux, bg, ret, stopError, chanRecv, chans, evLog, cnt,
                   explicitDisc>>

\* err := <-connErr meets the reader's send on fsConn.err; the reader returns
watcherReceives(s) ==
    /\ th[s].pc = "wait"
    /\ rdr[s].pc = "pubErr"
    /\ rdr' = [rdr EXCEPT ![s] = [NoReader EXCEPT !.pc = "exited"]]
    /\ th' = [th EXCEPT ![s] =
                [@ EXCEPT !.rerr = rdr[s].err,
                          !.pc = IF rdr[s].err # EOF THEN "sig_nil" ELSE "rlock"]]
    /\ UNCHANGED <<poolVars, hs, call, hnd, cfg, fsConn, mu, nSess, conn, peer, wire, sent, bgapiChan,
                   bgapiMux, bg, ret, stopError, chanRecv, chans, evLog, cnt,
                   explicitDisc>>

\* err != io.EOF: signalError(nil) and return
watcherSignalsNil(s) ==
    /\ th[s].pc = "sig_nil"
    /\ stopError' = Append(stopError, Nil)
    /\ th' = [th EXCEPT ![s] = Exited]
    /\ UNCHANGED <<poolVars, hs, call, hnd, cfg, fsConn, mu, nSess, conn, peer, wire, sent, rdr, bgapiChan,
                   bgapiMux, bg, ret, chanRecv, chans, evLog, cnt, explicitDisc>>

\* fs.mu.RLock()
watcherRLock(s) ==
    /\ th[s].pc = "rlock"
    /\ mu.w = 0
    /\ mu' = [mu EXCEPT !.r = @ \cup {s}]
    /\ th' = [th EXCEPT ![s] = [@ EXCEPT !.pc = "disc"]]
    /\ UNCHANGED <<poolVars, hs, call, hnd, cfg, fsConn, nSess, conn, peer, wire, sent, rdr, bgapiChan,
                   bgapiMux, bg, ret, stopError, chanRecv, chans, evLog, cnt,
                   explicitDisc>>

\* fs.disconnect() under the read lock
watcherDisconnects(s) ==
    /\ th[s].pc = "disc"
    /\ disconnect
    /\ th' = [th EXCEPT ![s] = [@ EXCEPT !.pc = "rc", !.op = "watch"]]
    /\ UNCHANGED <<poolVars, hs, call, hnd, cfg, mu, nSess, peer, wire, sent, rdr, bgapiChan, bgapiMux,
                   bg, ret, stopError, chanRecv, chans, evLog, cnt, explicitDisc>>

\* reconnectIfNeeded returned nil: the deferred RUnlock
watcherReconnected(s) ==
    /\ th[s].pc = "rc_done" /\ th[s].op = "watch"
    /\ th[s].err = Nil
    /\ mu' = [mu EXCEPT !.r = @ \ {s}]
    /\ th' = [th EXCEPT ![s] = Exited]
    /\ UNCHANGED <<poolVars, hs, call, hnd, cfg, fsConn, nSess, conn, peer, wire, sent, rdr, bgapiChan,
                   bgapiMux, bg, ret, stopError, chanRecv, chans, evLog, cnt,
                   explicitDisc>>

\* reconnectIfNeeded returned an error: signalError(err), then the RUnlock
watcherSignalsErr(s) ==
    /\ th[s].pc = "rc_done" /\ th[s].op = "watch"
    /\ th[s].err # Nil
    /\ stopError' = Append(stopError, th[s].err)
    /\ mu' = [mu EXCEPT !.r = @ \ {s}]
    /\ th' = [th EXCEPT ![s] = Exited]
    /\ UNCHANGED <<poolVars, hs, call, hnd, cfg, fsConn, nSess, conn, peer, wire, sent, rdr, bgapiChan,
                   bgapiMux, bg, ret, chanRecv, chans, evLog, cnt, explicitDisc>>

(***************************************************************************)
(* The host's calls into the FSock.                                        *)
(***************************************************************************)
LockFree == mu.w = 0 /\ mu.r = {}

\* caller t's call returns r; the deferred fs.mu.Unlock()
Return(t, r) ==
    /\ ret' = [ret EXCEPT ![t] = r]
    /\ th' = [th EXCEPT ![t] = IdleCaller]
    /\ mu' = [mu EXCEPT !.w = 0]

\* SendCmd / SendBgapiCmd / ReconnectIfNeeded: fs.mu.Lock(), then
\* reconnectIfNeeded.  Commands are numbered in the order they get the lock.
Call(t, op) ==
    /\ th[t].pc = "idle"
    /\ LockFree
    /\ mu' = [mu EXCEPT !.w = t]
    /\ IF op = "ReconnectIfNeeded"
       THEN /\ cnt.ops < MaxOps
            /\ cnt' = [cnt EXCEPT !.ops = @ + 1]
            /\ th' = [th EXCEPT ![t] = [IdleCaller EXCEPT !.pc = "rc", !.op = op]]
       ELSE /\ cnt.cmds < MaxCmds
            /\ cnt' = [cnt EXCEPT !.cmds = @ + 1]
            /\ th' = [th EXCEPT ![t] = [IdleCaller EXCEPT !.pc = "rc", !.op = op,
                                                          !.cmd = cnt.cmds + 1]]
    /\ explicitDisc' = FALSE
    /\ UNCHANGED <<poolVars, hs, call, hnd, cfg, fsConn, nSess, conn, peer, wire, sent, rdr, bgapiChan,
                   bgapiMux, bg, ret, stopError, chanRecv, chans, evLog>>

SendCmd(t) == Call(t, "SendCmd")

SendBgapiCmd(t) == Call(t, "SendBgapiCmd")

ReconnectIfNeeded(t) == Call(t, "ReconnectIfNeeded")

\* reconnectIfNeeded failed, or was all the call had to do: return its error
callReturns(t) ==
    /\ t \in Callers
    /\ th[t].pc = "rc_done"
    /\ th[t].err # Nil \/ th[t].op = "ReconnectIfNeeded"
    /\ Return(t, [NoRet EXCEPT !.op = th[t].op, !.cmd = th[t].cmd,
                               !.err = th[t].err])
    /\ UNCHANGED <<poolVars, hs, call, hnd, cfg, fsConn, nSess, conn, peer, wire, sent, rdr, bgapiChan,
                   bgapiMux, bg, stopError, chanRecv, chans, evLog, cnt,
                   explicitDisc>>

\* Connect: fs.mu.Lock(), connect(), Unlock
Connect(t) ==
    /\ t \in Callers
    /\ th[t].pc = "idle"
    /\ LockFree
    /\ cnt.ops < MaxOps
    /\ cnt' = [cnt EXCEPT !.ops = @ + 1]
    /\ \E ok \in BOOLEAN :
          /\ ok => nSess < MaxSessions
          /\ connect(t, ok, IdleCaller)
          /\ ret' = [ret EXCEPT ![t] =
                       [NoRet EXCEPT !.op = "Connect",
                                     !.err = IF ok THEN Nil ELSE ErrDial]]
    /\ explicitDisc' = FALSE
    /\ UNCHANGED <<poolVars, hs, call, hnd, cfg, mu, peer, wire, sent, bgapiChan, bgapiMux, bg, stopError,
                   chanRecv, chans, evLog>>

\* Disconnect: fs.mu.Lock(), disconnect(), Unlock
Disconnect(t) ==
    /\ t \in Callers
    /\ th[t].pc = "idle"
    /\ LockFree
    /\ cnt.ops < MaxOps
    /\ cnt' = [cnt EXCEPT !.ops = @ + 1]
    /\ disconnect
    /\ ret' = [ret EXCEPT ![t] = [NoRet EXCEPT !.op = "Disconnect"]]
    /\ explicitDisc' = TRUE
    /\ UNCHANGED <<poolVars, hs, call, hnd, cfg, mu, nSess, peer, wire, sent, rdr, bgapiChan, bgapiMux, bg,
                   th, stopError, chanRecv, chans, evLog>>

(***************************************************************************)
(* FSConn.Send and FSConn.SendBgapiCmd.                                    *)
(***************************************************************************)
\* Send returning the -ERR reply as it came, without strings.TrimSpace
SendResultUntrimmed(reply) ==
    IF Contains(reply, "-ERR")
    THEN [val |-> <<>>, err |-> reply]
    ELSE [val |-> reply, err |-> Nil]

\* what Send returns for a reply taken from fsConn.replies
SendResult(reply) ==
    IF Contains(reply, "-ERR")
    THEN [val |-> <<>>, err |-> TrimSpace(reply)]
    ELSE [val |-> reply, err |-> Nil]

\* what Send does to the session when its wait ends by the deadline
SendOnTimeout(s) == UNCHANGED <<conn, fsConn>>

\* the write of Send; for SendBgapiCmd the job is registered first, under
\* bgapiMux.  A write on a socket the client closed fails; on a connection
\* the peer dropped it may fail or be lost.
Send(t) ==
    /\ t \in Callers
    /\ th[t].pc = "rc_done"
    /\ th[t].op \in {"SendCmd", "SendBgapiCmd"}
    /\ th[t].err = Nil
    /\ fsConn # 0
    /\ LET s == fsConn
           bgapi == th[t].op = "SendBgapiCmd"
       IN
         /\ bgapi => ~bgapiMux[s]
         /\ bgapiChan' = IF bgapi
                         THEN [bgapiChan EXCEPT ![s][th[t].cmd] = th[t].cmd]
                         ELSE bgapiChan
         /\ \E written \in BOOLEAN :
               /\ written => conn[s] = "open"
               /\ ~written => (conn[s] = "closed" \/ peer[s] # "up")
               /\ IF written
                  THEN /\ sent' = IF peer[s] = "up"
                                 THEN [sent EXCEPT ![s] = Append(@, th[t].cmd)]
                                 ELSE sent
                       /\ th' = [th EXCEPT ![t] =
                                   [@ EXCEPT !.pc = "send_wait", !.sess = s]]
                       /\ UNCHANGED <<ret, mu>>
                  ELSE /\ Return(t, [NoRet EXCEPT !.op = th[t].op,
                                                  !.cmd = th[t].cmd,
                                                  !.err = ErrWrite])
                       /\ UNCHANGED sent
    /\ UNCHANGED <<poolVars, hs, call, hnd, cfg, fsConn, nSess, conn, peer, wire, rdr, bgapiMux, bg,
                   stopError, chanRecv, chans, evLog, cnt, explicitDisc>>

\* the wait of Send ends with a reply: the reader's send on fsConn.replies
\* meets the receive
SendReply(t) ==
    /\ t \in Callers
    /\ th[t].pc = "send_wait"
    /\ LET s == th[t].sess
           reply == rdr[s].f.txt
           res == SendResult(reply)
           out == IF th[t].op = "SendBgapiCmd" /\ res.err = Nil
                  THEN th[t].cmd ELSE 0
       IN
         /\ rdr[s].pc = "pubReply"
         /\ rdr' = [rdr EXCEPT ![s] = NewReader]
         /\ chans' = IF out # 0 THEN [chans EXCEPT ![out] = s] ELSE chans
         /\ Return(t, [op |-> th[t].op, cmd |-> th[t].cmd,
                       val |-> IF th[t].op = "SendBgapiCmd" THEN <<>> ELSE res.val,
                       err |-> res.err, ch |-> out])
    /\ UNCHANGED <<poolVars, hs, call, hnd, cfg, fsConn, nSess, conn, peer, wire, sent, bgapiChan,
                   bgapiMux, bg, stopError, chanRecv, evLog, cnt, explicitDisc>>

\* the wait of Send ends by the deadline of replyTimeout
SendTimeout(t) ==
    /\ t \in Callers
    /\ th[t].pc = "send_wait"
    /\ cfg.replyTimeout > 0
    /\ SendOnTimeout(th[t].sess)
    /\ Return(t, [NoRet EXCEPT !.op = th[t].op, !.cmd = th[t].cmd,
                               !.err = ErrDeadline])
    /\ UNCHANGED <<poolVars, hs, call, hnd, cfg, nSess, peer, wire, sent, rdr, bgapiChan, bgapiMux, bg,
                   stopError, chanRecv, chans, evLog, cnt, explicitDisc>>

(***************************************************************************)
(* The specifications.  Spec is the FSock with its sessions, readers and   *)
(* watchers under synchronous sends and lifecycle calls; JobSpec is the    *)
(* background-job path of a session.                                       *)
(***************************************************************************)
Network ==
    \E s \in Sessions :
          \/ ServerReply(s)
          \/ ServerFail(s)
          \/ ServerBadFrame(s)

Reader ==
    \E s \in Sessions :
          \/ readHeaders(s)
          \/ readBody(s)
          \/ readFails(s)

Watcher ==
    \E s \in Sessions :
          \/ watcherReceives(s)
          \/ watcherSignalsNil(s)
          \/ watcherRLock(s)
          \/ watcherDisconnects(s)
          \/ watcherReconnected(s)
          \/ watcherSignalsErr(s)

Reconnect ==
    \E t \in Threads :
          \/ reconnectIfNeeded(t)
          \/ reconnectAttempt(t)
          \/ reconnectGiveUp(t)

Sending ==
    \E t \in Callers :
          \/ callReturns(t)
          \/ Send(t)
          \/ SendReply(t)
          \/ SendTimeout(t)

Lifecycle ==
    \E t \in Callers :
          \/ ReconnectIfNeeded(t)
          \/ Connect(t)
          \/ Disconnect(t)

Next ==
    \/ Network
    \/ Reader
    \/ Watcher
    \/ Reconnect
    \/ Sending
    \/ Lifecycle
    \/ \E s \in Sessions : ServerEvent(s)
    \/ \E t \in Callers : SendCmd(t)
    \/ \E h \in Handlers : handlerReturns(h)

Spec == Init /\ [][Next]_vars

\* the FSock under both kinds of send, synchronous and background
SendNext ==
    \/ Network
    \/ Reader
    \/ Watcher
    \/ Reconnect
    \/ Sending
    \/ Lifecycle
    \/ \E t \in Callers : SendCmd(t)
    \/ \E t \in Callers : SendBgapiCmd(t)

SendSpec == Init /\ [][SendNext]_vars

\* the background-job path: submissions, BACKGROUND_JOB events, completers,
\* with a Connect that may install a second session beside the first
JobInit == Init /\ cfg.reconnects = 0

JobNext ==
    \/ \E s \in Sessions :
          \/ ServerReply(s)
          \/ ServerJobEvent(s)
          \/ readHeaders(s)
          \/ readBody(s)
    \/ \E t \in Callers :
          \/ SendBgapiCmd(t)
          \/ reconnectIfNeeded(t)
          \/ Send(t)
          \/ SendReply(t)
          \/ SendTimeout(t)
          \/ Connect(t)
          \/ reconnectGiveUp(t)
          \/ callReturns(t)
    \/ \E j \in Completers :
          \/ doBackgroundJob(j)
          \/ jobDelivered(j)

JobSpec == JobInit /\ [][JobNext]_vars

\* the reader of a healthy session among handlers: events with a handler,
\* BACKGROUND_JOB events and synchronous sends, without timeouts or failures
HandlerInit == Init /\ cfg.reconnects = 0 /\ cfg.replyTimeout = 0

HandlerNext ==
    \/ \E s \in Sessions :
          \/ ServerReply(s)
          \/ ServerEvent(s)
          \/ ServerJobEvent(s)
          \/ readHeaders(s)
          \/ readBody(s)
    \/ \E t \in Callers :
          \/ SendCmd(t)
          \/ reconnectIfNeeded(t)
          \/ Send(t)
          \/ SendReply(t)
    \/ \E j \in Completers : doBackgroundJob(j)
    \/ \E h \in Handlers : handlerReturns(h)

HandlerSpec == HandlerInit /\ [][HandlerNext]_vars

(***************************************************************************)
(* FSockPool: PopFSock and PushFSock over the two channels.  The FSocks    *)
(* of the pool are seen through what the pool uses of them: the parameters *)
(* they were constructed with and Connected().                             *)
(***************************************************************************)
PoolCallers == 1..NumPoolCallers
Made == 1..MaxMade
\* replyTimeout and maxReconnectInterval values a pool is constructed with
Durations == {1, 5}

ErrUnconfigured == <<"unconfigured connection pool">>
ErrConnectionPoolTimeout == <<"ConnectionPool timeout">>

\* NewFSockPool: the fields of the pool
NewFSockPool(maxFSocks, maxReconnectInterval, replyTimeout) ==
    [nil |-> FALSE, maxFSocks |-> maxFSocks,
     maxReconnectInterval |-> maxReconnectInterval,
     replyTimeout |-> replyTimeout]

NoFSock == [made |-> FALSE, connected |-> FALSE, maxReconnectInterval |-> 0,
            replyTimeout |-> 0]

\* NewFSock, by the order of its parameters, when Connect succeeds
NewFSock(maxReconnectInterval, replyTimeout) ==
    [made |-> TRUE, connected |-> TRUE,
     maxReconnectInterval |-> maxReconnectInterval,
     replyTimeout |-> replyTimeout]

\* a pool caller: its position, the FSocks it holds (those PopFSock returned
\* to it and it has not released), the FSock it is releasing, the PopFSock
\* calls whose NewFSock failed that it has not answered with PushFSock(nil),
\* and the error its last PopFSock returned
IdlePoolCaller == [pc |-> "idle", held |-> {}, arg |-> 0, owes |-> 0,
                   err |-> Nil]

\* no FSock outside the pool is modelled
NoFSockVars ==
    /\ cfg = [reconnects |-> 0, replyTimeout |-> 0, maxReconnectInterval |-> 0]
    /\ hnd = {}
    /\ fsConn = 0
    /\ mu = [w |-> 0, r |-> {}]
    /\ nSess = 0
    /\ conn = [s \in Sessions |-> "none"]
    /\ peer = [s \in Sessions |-> "up"]
    /\ wire = [s \in Sessions |-> <<>>]
    /\ sent = [s \in Sessions |-> <<>>]
    /\ rdr = [s \in Sessions |-> NoReader]
    /\ bgapiChan = [s \in Sessions |-> [u \in JobIds |-> 0]]
    /\ bgapiMux = [s \in Sessions |-> FALSE]
    /\ bg = {}
    /\ th = [t \in Threads |-> NoThread]
    /\ ret = [t \in Callers |-> NoRet]
    /\ stopError = <<>>
    /\ chanRecv = [u \in UUIDs |-> <<>>]
    /\ chans = [u \in UUIDs |-> 0]
    /\ evLog = <<>>
    /\ cnt = [cmds |-> 0, events |-> 0, jobEvents |-> 0, ops |-> 0, fails |-> 0]
    /\ explicitDisc = FALSE

fsockVars == <<hnd, cfg, fsConn, mu, nSess, conn, peer, wire, sent, rdr, bgapiChan,
               bgapiMux, bg, th, ret, stopError, chanRecv, chans, evLog, cnt,
               explicitDisc>>

\* the state NewFSockPool returns in, or a nil pool
PoolInit ==
    /\ NoFSockVars
    /\ pool \in {NilPool} \cup
                 {NewFSockPool(MaxFSocks, m, r) : m \in Durations, r \in Durations}
    /\ allowedConns = pool.maxFSocks
    /\ fSocks = <<>>
    /\ fsocks = [k \in Made |-> NoFSock]
    /\ pth = [c \in PoolCallers |-> IdlePoolCaller]
    /\ pcnt = [made |-> 0, stray |-> 0, late |-> {}]
    /\ hs = NoNewFSConn
    /\ call = NoCall

PoolReturn(c, k, err) ==
    [pth[c] EXCEPT !.pc = "idle", !.err = err,
                   !.held = IF k = 0 THEN @ ELSE @ \cup {k}]

\* PopFSock up to its select: the nil test and the len(fs.fSocks) test
PopFSock(c) ==
    /\ pth[c].pc = "idle"
    /\ pth' = [pth EXCEPT ![c] =
                 IF pool.nil THEN PoolReturn(c, 0, ErrUnconfigured)
                 ELSE IF Len(fSocks) # 0 THEN [@ EXCEPT !.pc = "fast"]
                 ELSE [@ EXCEPT !.pc = "select"]]
    /\ UNCHANGED <<pool, allowedConns, fSocks, fsocks, pcnt, fsockVars, hs, call>>

\* the receive after the len test taking the FSock released last
popFastTakesLast(c) ==
    /\ pth[c].pc = "fast"
    /\ fSocks # <<>>
    /\ fSocks' = SubSeq(fSocks, 1, Len(fSocks) - 1)
    /\ pth' = [pth EXCEPT ![c] = PoolReturn(c, fSocks[Len(fSocks)], Nil)]
    /\ UNCHANGED <<pool, allowedConns, fsocks, pcnt, fsockVars, hs, call>>

\* fsock = <-fs.fSocks after the len test
popFast(c) ==
    /\ pth[c].pc = "fast"
    /\ fSocks # <<>>
    /\ fSocks' = Tail(fSocks)
    /\ pth' = [pth EXCEPT ![c] = PoolReturn(c, Head(fSocks), Nil)]
    /\ UNCHANGED <<pool, allowedConns, fsocks, pcnt, fsockVars, hs, call>>

\* the select: case fsock = <-fs.fSocks
popIdle(c) ==
    /\ pth[c].pc = "select"
    /\ fSocks # <<>>
    /\ fSocks' = Tail(fSocks)
    /\ pth' = [pth EXCEPT ![c] = PoolReturn(c, Head(fSocks), Nil)]
    /\ UNCHANGED <<pool, allowedConns, fsocks, pcnt, fsockVars, hs, call>>

\* the select constructing an FSock without receiving from fs.allowedConns
popPermitKeepsPermit(c) ==
    /\ pth[c].pc = "select"
    /\ allowedConns > 0
    /\ \E ok \in BOOLEAN :
          IF ok
          THEN LET k == pcnt.made + 1 IN
               /\ pcnt.made < MaxMade
               /\ pcnt' = [pcnt EXCEPT !.made = k]
               /\ fsocks' = [fsocks EXCEPT ![k] =
                               NewFSock(pool.replyTimeout, pool.maxReconnectInterval)]
               /\ pth' = [pth EXCEPT ![c] = PoolReturn(c, k, Nil)]
          ELSE /\ pth' = [pth EXCEPT ![c] =
                            [PoolReturn(c, 0, ErrDial) EXCEPT !.owes = @ + 1]]
               /\ UNCHANGED <<fsocks, pcnt>>
    /\ UNCHANGED <<pool, allowedConns, fSocks, fsockVars, hs, call>>

\* the select: case <-fs.allowedConns, then NewFSock, which may fail
popPermit(c) ==
    /\ pth[c].pc = "select"
    /\ allowedConns > 0
    /\ allowedConns' = allowedConns - 1
    /\ \E ok \in BOOLEAN :
          IF ok
          THEN LET k == pcnt.made + 1 IN
               /\ pcnt.made < MaxMade
               /\ pcnt' = [pcnt EXCEPT !.made = k]
               /\ fsocks' = [fsocks EXCEPT ![k] =
                               NewFSock(pool.replyTimeout, pool.maxReconnectInterval)]
               /\ pth' = [pth EXCEPT ![c] = PoolReturn(c, k, Nil)]
          ELSE /\ pth' = [pth EXCEPT ![c] =
                            [PoolReturn(c, 0, ErrDial) EXCEPT !.owes = @ + 1]]
               /\ UNCHANGED <<fsocks, pcnt>>
    /\ UNCHANGED <<pool, fSocks, fsockVars, hs, call>>

\* the select: case <-tm.C, when maxWaitConn passed with nothing to receive
popTimeout(c) ==
    /\ pth[c].pc = "select"
    /\ fSocks = <<>> /\ allowedConns = 0
    /\ pth' = [pth EXCEPT ![c] = PoolReturn(c, 0, ErrConnectionPoolTimeout)]
    /\ UNCHANGED <<pool, allowedConns, fSocks, fsocks, pcnt, fsockVars, hs, call>>

\* PushFSock testing fsk == nil only
PushBranchIgnoresConnected(k) ==
    IF k = 0 THEN "push_permit" ELSE "push_idle"

\* which channel PushFSock sends on: fsk == nil || !fsk.Connected()
PushBranch(k) ==
    IF k = 0 \/ ~fsocks[k].connected THEN "push_permit" ELSE "push_idle"

\* PushFSock(fsk) up to its channel send, for an FSock the caller holds
PushFSock(c, k) ==
    /\ pth[c].pc = "idle"
    /\ k \in pth[c].held
    /\ pth' = [pth EXCEPT ![c] = [@ EXCEPT !.pc = PushBranch(k), !.arg = k]]
    /\ UNCHANGED <<pool, allowedConns, fSocks, fsocks, pcnt, fsockVars, hs, call>>

\* PushFSock(nil): after a PopFSock whose NewFSock failed, or with no lost
\* permit to make up for; of the latter, pcnt.late has the callers whose
\* PushFSock(nil) followed a PopFSock of theirs that timed out
PushNil(c) ==
    /\ pth[c].pc = "idle"
    /\ \/ /\ pth[c].owes > 0
          /\ pth' = [pth EXCEPT ![c] =
                       [@ EXCEPT !.owes = @ - 1,
                                 !.pc = IF pool.nil THEN "idle" ELSE PushBranch(0)]]
          /\ UNCHANGED pcnt
       \/ /\ pcnt.stray < MaxStrayNil
          /\ \E late \in BOOLEAN :
                /\ late => pth[c].err = ErrConnectionPoolTimeout /\ c \notin pcnt.late
                /\ pcnt' = [pcnt EXCEPT !.stray = @ + 1,
                                        !.late = IF late THEN @ \cup {c} ELSE @]
          /\ pth' = [pth EXCEPT ![c] =
                       [@ EXCEPT !.pc = IF pool.nil THEN "idle" ELSE PushBranch(0)]]
    /\ UNCHANGED <<pool, allowedConns, fSocks, fsocks, fsockVars, hs, call>>

\* fs.allowedConns <- struct{}{}
pushPermit(c) ==
    /\ pth[c].pc = "push_permit"
    /\ allowedConns < pool.maxFSocks
    /\ allowedConns' = allowedConns + 1
    /\ pth' = [pth EXCEPT ![c] =
                 [@ EXCEPT !.pc = "idle", !.arg = 0, !.held = @ \ {pth[c].arg}]]
    /\ UNCHANGED <<pool, fSocks, fsocks, pcnt, fsockVars, hs, call>>

\* fs.fSocks <- fsk
pushIdle(c) ==
    /\ pth[c].pc = "push_idle"
    /\ Len(fSocks) < pool.maxFSocks
    /\ fSocks' = Append(fSocks, pth[c].arg)
    /\ pth' = [pth EXCEPT ![c] =
                 [@ EXCEPT !.pc = "idle", !.arg = 0, !.held = @ \ {pth[c].arg}]]
    /\ UNCHANGED <<pool, allowedConns, fsocks, pcnt, fsockVars, hs, call>>

\* an FSock of the pool loses its session: Connected() turns false
fsockLost(k) ==
    /\ fsocks[k].made /\ fsocks[k].connected
    /\ fsocks' = [fsocks EXCEPT ![k].connected = FALSE]
    /\ UNCHANGED <<pool, allowedConns, fSocks, pth, pcnt, fsockVars, hs, call>>

\* its watcher, or a send of its holder, reconnects it
fsockReconnects(k) ==
    /\ fsocks[k].made /\ ~fsocks[k].connected
    /\ fsocks' = [fsocks EXCEPT ![k].connected = TRUE]
    /\ UNCHANGED <<pool, allowedConns, fSocks, pth, pcnt, fsockVars, hs, call>>

PoolNext ==
    \/ \E c \in PoolCallers :
          \/ PopFSock(c)
          \/ popFast(c)
          \/ popIdle(c)
          \/ popPermit(c)
          \/ popTimeout(c)
          \/ PushNil(c)
          \/ pushPermit(c)
          \/ pushIdle(c)
          \/ \E k \in Made : PushFSock(c, k)
    \/ \E k \in Made :
          \/ fsockLost(k)
          \/ fsockReconnects(k)

PoolSpec == PoolInit /\ [][PoolNext]_vars

(***************************************************************************)
(* NewFSConn: the dial, the handshake and the start of the reader.  A      *)
(* header block is the sequence of its lines; FreeSWITCH's answers and the *)
(* outcome of each write are the inputs.                                   *)
(***************************************************************************)
AuthRequest == <<"Content-Type: auth/request">>
ReplyOKAccepted == <<"Content-Type: command/reply", "Reply-Text: +OK accepted">>
ReplyOK == <<"Content-Type: command/reply", "Reply-Text: +OK">>
ReplyErr == <<"Content-Type: command/reply", "Reply-Text: -ERR invalid">>
NoHeaders == <<>>

HeaderBlocks == {AuthRequest, ReplyOKAccepted, ReplyOK, ReplyErr, NoHeaders}

\* what one call of readHeaders meets: a header block, or a failed ReadBytes
HeaderReads == [hdr : HeaderBlocks, e : {"nil"}] \cup [hdr : {NoHeaders}, e : NetErrs]

\* strings.Contains(line, needle) for the lines above and the needles of
\* NewFSConn, auth, filterEvents and eventsPlain
LineContains(line, needle) ==
    \/ line = needle
    \/ line = "Content-Type: auth/request" /\ needle = "auth/request"
    \/ line = "Reply-Text: +OK accepted" /\ needle = "Reply-Text: +OK"

HeadersContain(header, needle) ==
    \E i \in 1..Len(header) : LineContains(header[i], needle)

ErrNoAuthChallenge == <<"no auth challenge received">>
ErrAuthReply == <<"unexpected auth reply received">>
ErrFilterReply == <<"unexpected filter-events reply received">>
ErrEventsReply == <<"unexpected events-subscribe reply received">>

\* the arguments of one call: the filter values given and bgapi
NewFSConnArgs == [evFilters : 0..MaxFilters, bgapi : BOOLEAN]

NewFSConnInit ==
    /\ NoFSockVars
    /\ NoPool
    /\ call = NoCall
    /\ \E a \in NewFSConnArgs :
          hs = [NoNewFSConn EXCEPT !.pc = "dial", !.evFilters = a.evFilters,
                                   !.bgapi = a.bgapi]

\* return nil, err; closes says whether fsConn.conn.Close() ran before
NewFSConnFails(err, closes) ==
    [hs EXCEPT !.pc = "done", !.ret = [fsConn |-> FALSE, err |-> err],
               !.conn = IF closes THEN "closed" ELSE @]

\* a step that reads a header block and goes on whatever the block holds
AfterReplyGoesOn(r, needle, err, next) ==
    IF r.e # "nil"
    THEN [NewFSConnFails(readHeadersErr(r.e), TRUE) EXCEPT !.rcvd = Append(@, r)]
    ELSE [hs EXCEPT !.pc = next, !.rcvd = Append(@, r)]

\* the result of a step that reads a header block: readHeaders fails and
\* has closed the connection, or the block lacks the needle and the step
\* closes the connection, or the handshake goes on at pc next
AfterReply(r, needle, err, next) ==
    IF r.e # "nil"
    THEN [NewFSConnFails(readHeadersErr(r.e), TRUE) EXCEPT !.rcvd = Append(@, r)]
    ELSE IF ~HeadersContain(r.hdr, needle)
    THEN [NewFSConnFails(err, TRUE) EXCEPT !.rcvd = Append(@, r)]
    ELSE [hs EXCEPT !.pc = next, !.rcvd = Append(@, r)]

\* the result of a step that writes cmd: send fails and the step closes the
\* connection, or the handshake goes on at pc next
AfterSend(ok, cmd, next) ==
    IF ok THEN [hs EXCEPT !.pc = next, !.sent = Append(@, cmd)]
    ELSE NewFSConnFails(ErrWrite, TRUE)

\* net.Dial
netDial(ok) ==
    /\ hs.pc = "dial"
    /\ hs' = IF ok THEN [hs EXCEPT !.pc = "challenge", !.conn = "open"]
             ELSE NewFSConnFails(ErrDial, FALSE)
    /\ UNCHANGED <<poolVars, fsockVars, call>>

\* readHeaders and the test for "auth/request"
readAuthChallenge(r) ==
    /\ hs.pc = "challenge"
    /\ hs' = AfterReply(r, "auth/request", ErrNoAuthChallenge, "auth")
    /\ UNCHANGED <<poolVars, fsockVars, call>>

\* auth: send("auth " + passwd)
authSend(ok) ==
    /\ hs.pc = "auth"
    /\ hs' = AfterSend(ok, "auth", "auth_reply")
    /\ UNCHANGED <<poolVars, fsockVars, call>>

\* where NewFSConn goes on after auth: filterEvents returns at once without
\* filters, and adds the BACKGROUND_JOB value with bgapi
AfterAuth(h) ==
    IF h.pc # "filter" THEN h
    ELSE IF h.evFilters = 0 THEN [h EXCEPT !.pc = "events"]
    ELSE [h EXCEPT !.todo = h.evFilters + (IF h.bgapi THEN 1 ELSE 0)]

\* auth whose rejected reply leaves the connection open
authReplyKeepsConn(r) ==
    /\ hs.pc = "auth_reply"
    /\ hs' = IF r.e = "nil" /\ ~HeadersContain(r.hdr, "Reply-Text: +OK accepted")
             THEN [NewFSConnFails(ErrAuthReply, FALSE) EXCEPT !.rcvd = Append(@, r)]
             ELSE AfterAuth(AfterReply(r, "Reply-Text: +OK accepted",
                                       ErrAuthReply, "filter"))
    /\ UNCHANGED <<poolVars, fsockVars, call>>

\* auth: readHeaders and the test for "Reply-Text: +OK accepted"
authReply(r) ==
    /\ hs.pc = "auth_reply"
    /\ hs' = AfterAuth(AfterReply(r, "Reply-Text: +OK accepted", ErrAuthReply,
                                  "filter"))
    /\ UNCHANGED <<poolVars, fsockVars, call>>

\* filterEvents: send("filter " + hdr + " " + val) for the next value
filterEventsSend(ok) ==
    /\ hs.pc = "filter"
    /\ hs' = AfterSend(ok, "filter", "filter_reply")
    /\ UNCHANGED <<poolVars, fsockVars, call>>

\* the loop of filterEvents after an accepted reply
AfterFilter(h) ==
    IF h.pc # "filter" THEN h
    ELSE [h EXCEPT !.todo = @ - 1, !.pc = IF h.todo = 1 THEN "events" ELSE "filter"]

\* filterEvents: readHeaders and the test for "Reply-Text: +OK"
filterEventsReply(r) ==
    /\ hs.pc = "filter_reply"
    /\ hs' = AfterFilter(AfterReply(r, "Reply-Text: +OK", ErrFilterReply, "filter"))
    /\ UNCHANGED <<poolVars, fsockVars, call>>

\* eventsPlain: send(eventsCmd)
eventsPlainSend(ok) ==
    /\ hs.pc = "events"
    /\ hs' = AfterSend(ok, "event plain", "events_reply")
    /\ UNCHANGED <<poolVars, fsockVars, call>>

\* eventsPlain: readHeaders and the test for "Reply-Text: +OK"
eventsPlainReply(r) ==
    /\ hs.pc = "events_reply"
    /\ hs' = AfterReply(r, "Reply-Text: +OK", ErrEventsReply, "fork")
    /\ UNCHANGED <<poolVars, fsockVars, call>>

\* go fsConn.readEvents(); return fsConn, nil
goReadEvents ==
    /\ hs.pc = "fork"
    /\ hs' = [hs EXCEPT !.pc = "done", !.readers = @ + 1,
                        !.ret = [fsConn |-> TRUE, err |-> Nil]]
    /\ UNCHANGED <<poolVars, fsockVars, call>>

NewFSConnNext ==
    \/ \E ok \in BOOLEAN :
          \/ netDial(ok)
          \/ authSend(ok)
          \/ filterEventsSend(ok)
          \/ eventsPlainSend(ok)
    \/ \E r \in HeaderReads :
          \/ readAuthChallenge(r)
          \/ authReply(r)
          \/ filterEventsReply(r)
          \/ eventsPlainReply(r)
    \/ goReadEvents

NewFSConnSpec == NewFSConnInit /\ [][NewFSConnNext]_vars

(***************************************************************************)
(* eventsPlain taken alone: the subscription command it builds from the    *)
(* keys of the handlers, in the order getMapKeys enumerates them.  A text  *)
(* is the sequence of its words and spaces; a key that starts with CUSTOM  *)
(* has CUSTOM as its first token.                                          *)
(***************************************************************************)
HandlerKeys == { <<"ALL">>, <<"all">>, <<"HEARTBEAT">>, <<"CUSTOM">>,
                 <<"CUSTOM", " ", "sofia::register">>, <<"CUSTOM", "ER">> }

\* the enumerations of at most MaxKeys distinct keys
KeyLists ==
    UNION { { ks \in [1..n -> HandlerKeys] : \A i, j \in 1..n : ks[i] = ks[j] => i = j }
            : n \in 0..MaxKeys }

EventPlain == <<"event", " ", "plain">>
EventPlainAll == <<"event", " ", "plain", " ", "all">>

\* strings.HasPrefix(ev, "CUSTOM")
HasPrefixCustom(ev) == Len(ev) > 0 /\ ev[1] = "CUSTOM"

\* ev[6:]
AfterCustom(ev) == Tail(ev)

EventsPlainInit ==
    /\ NoFSockVars
    /\ NoPool
    /\ hs = NoNewFSConn
    /\ \E ks \in KeyLists, b \in BOOLEAN :
          call = [fn |-> "eventsPlain", pc |-> "loop", events |-> ks, bgapi |-> b,
                  i |-> 1, eventsCmd |-> EventPlain, customEvents |-> <<>>,
                  sent |-> <<>>]

\* one turn of the loop over events
eventsPlainKey ==
    /\ call.fn = "eventsPlain" /\ call.pc = "loop"
    /\ call.i <= Len(call.events)
    /\ LET ev == call.events[call.i] IN
         call' = IF ev = <<"ALL">>
                 THEN [call EXCEPT !.eventsCmd = EventPlainAll, !.pc = "built"]
                 ELSE IF HasPrefixCustom(ev)
                 THEN [call EXCEPT !.customEvents = @ \o AfterCustom(ev),
                                   !.i = @ + 1]
                 ELSE [call EXCEPT !.eventsCmd = @ \o <<" ">> \o ev, !.i = @ + 1]
    /\ UNCHANGED <<poolVars, fsockVars, hs>>

\* the loop is through
eventsPlainKeysDone ==
    /\ call.fn = "eventsPlain" /\ call.pc = "loop"
    /\ call.i > Len(call.events)
    /\ call' = [call EXCEPT !.pc = "built"]
    /\ UNCHANGED <<poolVars, fsockVars, hs>>

\* BACKGROUND_JOB and the CUSTOM events are added, and the command is sent
eventsPlainCmd ==
    /\ call.fn = "eventsPlain" /\ call.pc = "built"
    /\ LET withJob == IF call.bgapi
                      THEN call.eventsCmd \o <<" ", "BACKGROUND_JOB">>
                      ELSE call.eventsCmd
           withCustom == IF Len(call.customEvents) # 0
                         THEN withJob \o <<" ", "CUSTOM">> \o call.customEvents
                         ELSE withJob
           eventsCmd == IF call.eventsCmd # EventPlainAll THEN withCustom
                        ELSE call.eventsCmd
       IN call' = [call EXCEPT !.eventsCmd = eventsCmd, !.pc = "sent",
                               !.sent = eventsCmd \o <<"\n", "\n">>]
    /\ UNCHANGED <<poolVars, fsockVars, hs>>

EventsPlainNext ==
    \/ eventsPlainKey
    \/ eventsPlainKeysDone
    \/ eventsPlainCmd

EventsPlainSpec == EventsPlainInit /\ [][EventsPlainNext]_vars

(***************************************************************************)
(* readEvents taken alone: one frame from the header block to its          *)
(* destination.  A header block is the sequence of its lines, a line has   *)
(* the name before ": " and the value after it as a text.                  *)
(***************************************************************************)
FrameLines ==
    { [name |-> "Content-Type", val |-> <<"api/response">>],
      [name |-> "Content-Type", val |-> <<"command/reply">>],
      [name |-> "Content-Type", val |-> <<"text/event-plain">>],
      [name |-> "Content-Type", val |-> <<"text/disconnect-notice">>],
      [name |-> "Reply-Text", val |-> <<"+OK", " ", "accepted">>],
      [name |-> "Reply-Text", val |-> <<" ", "-ERR", " ", "invalid", " ">>],
      [name |-> "Content-Length", val |-> <<"n">>] }

\* header blocks of at most MaxLines distinct lines
FrameHeaders ==
    UNION { { h \in [1..n -> FrameLines] : \A i, j \in 1..n : h[i] = h[j] => i = j }
            : n \in 0..MaxLines }

\* the bodies a Content-Length header announces: none (0), a result, an event
FrameBodies == { <<>>, <<"+OK", " ", "done", "\n">>,
                 <<"Event-Name:", " ", "HEARTBEAT", "\n">> }

\* strings.Contains(hdr, needle) for a needle that is a header name or the
\* whole of a one-word value
HeaderHas(hdr, needle) ==
    \E i \in 1..Len(hdr) : hdr[i].name = needle \/ hdr[i].val = <<needle>>

\* headerVal(hdr, name) for a header name: the trimmed value of its first line
headerValOf(hdr, name) ==
    IF \E i \in 1..Len(hdr) : hdr[i].name = name
    THEN LET i == CHOOSE i \in 1..Len(hdr) :
                     /\ hdr[i].name = name
                     /\ \A k \in 1..(i - 1) : hdr[k].name # name
         IN TrimSpace(hdr[i].val)
    ELSE <<>>

ReadEventsInit ==
    /\ NoFSockVars
    /\ NoPool
    /\ hs = NoNewFSConn
    /\ \E h \in FrameHeaders, b \in FrameBodies :
          /\ ~HeaderHas(h, "Content-Length") => b = <<>>
          /\ call = [fn |-> "readEvents", pc |-> "readEvent", wireHdr |-> h,
                     wireBody |-> b, hdr |-> <<>>, body |-> <<>>,
                     to |-> "none", out |-> <<>>]

\* readEvent without an error: the header block, and the body when the
\* block has a Content-Length
readEventOK ==
    /\ call.fn = "readEvents" /\ call.pc = "readEvent"
    /\ call' = [call EXCEPT !.pc = "switch", !.hdr = call.wireHdr,
                            !.body = IF HeaderHas(call.wireHdr, "Content-Length")
                                     THEN call.wireBody ELSE <<>>]
    /\ UNCHANGED <<poolVars, fsockVars, hs>>

\* the switch with the test for command/reply first
readEventsSwitchReplyFirst ==
    /\ call.fn = "readEvents" /\ call.pc = "switch"
    /\ call' = IF HeaderHas(call.hdr, "command/reply")
               THEN [call EXCEPT !.pc = "routed", !.to = "replies",
                                 !.out = headerValOf(call.hdr, "Reply-Text")]
               ELSE IF HeaderHas(call.hdr, "api/response")
               THEN [call EXCEPT !.pc = "routed", !.to = "replies",
                                 !.out = call.body]
               ELSE IF call.body # <<>>
               THEN [call EXCEPT !.pc = "routed", !.to = "dispatchEvent",
                                 !.out = call.body]
               ELSE [call EXCEPT !.pc = "routed"]
    /\ UNCHANGED <<poolVars, fsockVars, hs>>

\* the switch of readEvents
readEventsSwitch ==
    /\ call.fn = "readEvents" /\ call.pc = "switch"
    /\ call' = IF HeaderHas(call.hdr, "api/response")
               THEN [call EXCEPT !.pc = "routed", !.to = "replies",
                                 !.out = call.body]
               ELSE IF HeaderHas(call.hdr, "command/reply")
               THEN [call EXCEPT !.pc = "routed", !.to = "replies",
                                 !.out = headerValOf(call.hdr, "Reply-Text")]
               ELSE IF call.body # <<>>
               THEN [call EXCEPT !.pc = "routed", !.to = "dispatchEvent",
                                 !.out = call.body]
               ELSE [call EXCEPT !.pc = "routed"]
    /\ UNCHANGED <<poolVars, fsockVars, hs>>

ReadEventsNext ==
    \/ readEventOK
    \/ readEventsSwitch

ReadEventsSpec == ReadEventsInit /\ [][ReadEventsNext]_vars

(***************************************************************************)
(* dispatchEvent taken alone, for an event that is not a BACKGROUND_JOB.   *)
(* An event is seen through its Event-Name and Event-Subclass headers;     *)
(* eventHandlers gives for each key the length of its list of handlers,    *)
(* -1 when the map has no such key.                                        *)
(***************************************************************************)
SofiaRegister == <<"sofia", ":", ":", "register">>

\* the Event-Subclass values: none, escaped, with a plus, not unescapable
Subclasses == { <<>>, <<"sofia", "%3A", "%3A", "register">>, <<"a", "+", "b">>,
                <<"bad", "%zz">> }

DispatchedEvents ==
    [name : {<<"HEARTBEAT">>, <<"CHANNEL_ANSWER">>}, subclass : {<<>>}]
    \cup [name : {<<"CUSTOM">>}, subclass : Subclasses]

DispatchKeys == { <<"ALL">>, <<"HEARTBEAT">>, <<"CUSTOM">>,
                  <<"CUSTOM", " ">> \o SofiaRegister,
                  <<"CUSTOM", " ", "a", " ", "b">> }

\* url.QueryUnescape of one token
Unescaped(tok) ==
    IF tok = "%3A" THEN ":" ELSE IF tok = "+" THEN " " ELSE tok

\* urlDecode: the text unescaped, or as it came when unescaping fails
urlDecode(hdrVal) ==
    IF \E i \in 1..Len(hdrVal) : hdrVal[i] = "%zz" THEN hdrVal
    ELSE [i \in 1..Len(hdrVal) |-> Unescaped(hdrVal[i])]

\* len(eventHandlers[handleName]), or -1 when the map has no such key
HandlersOf(m, handleName) ==
    IF handleName \in DispatchKeys THEN m[handleName] ELSE -1

DispatchInit ==
    /\ NoFSockVars
    /\ NoPool
    /\ hs = NoNewFSConn
    /\ \E ev \in DispatchedEvents, m \in [DispatchKeys -> -1..MaxHandlers],
          idx \in {0, 3} :
          call = [fn |-> "dispatchEvent", pc |-> "name", event |-> ev,
                  connIdx |-> idx, eventHandlers |-> m, eventName |-> <<>>,
                  try |-> 1, k |-> 1, invoked |-> <<>>, warned |-> FALSE]

\* eventName, with the decoded subclass for a CUSTOM event that has one
dispatchEventName ==
    /\ call.fn = "dispatchEvent" /\ call.pc = "name"
    /\ call' = [call EXCEPT
                  !.pc = "lookup",
                  !.eventName =
                      IF call.event.name = <<"CUSTOM">> /\ Len(call.event.subclass) # 0
                      THEN call.event.name \o <<" ">> \o urlDecode(call.event.subclass)
                      ELSE call.event.name]
    /\ UNCHANGED <<poolVars, fsockVars, hs>>

\* the loop over ALL and then eventName
dispatchEventLookupAllFirst ==
    /\ call.fn = "dispatchEvent" /\ call.pc = "lookup"
    /\ LET handleName == IF call.try = 1 THEN <<"ALL">> ELSE call.eventName IN
         call' = IF HandlersOf(call.eventHandlers, handleName) # -1
                 THEN [call EXCEPT !.pc = "invoke"]
                 ELSE IF call.try = 1 THEN [call EXCEPT !.try = 2]
                 ELSE [call EXCEPT !.pc = "done", !.warned = TRUE]
    /\ UNCHANGED <<poolVars, fsockVars, hs>>

\* one turn of the loop over eventName and "ALL": the map has the key and
\* its handlers are gone through, or the next name is tried, or none is left
\* and the warning is logged
dispatchEventLookup ==
    /\ call.fn = "dispatchEvent" /\ call.pc = "lookup"
    /\ LET handleName == IF call.try = 1 THEN call.eventName ELSE <<"ALL">> IN
         call' = IF HandlersOf(call.eventHandlers, handleName) # -1
                 THEN [call EXCEPT !.pc = "invoke"]
                 ELSE IF call.try = 1 THEN [call EXCEPT !.try = 2]
                 ELSE [call EXCEPT !.pc = "done", !.warned = TRUE]
    /\ UNCHANGED <<poolVars, fsockVars, hs>>

\* go handlerFunc(event, fsConn.connIdx) for the next handler of the list
dispatchEventHandler ==
    /\ call.fn = "dispatchEvent" /\ call.pc = "invoke"
    /\ LET handleName == IF call.try = 1 THEN call.eventName ELSE <<"ALL">> IN
         call' = IF call.k <= HandlersOf(call.eventHandlers, handleName)
                 THEN [call EXCEPT !.k = @ + 1,
                                   !.invoked = Append(@, [key |-> handleName,
                                                          k |-> call.k,
                                                          event |-> call.event,
                                                          connIdx |-> call.connIdx])]
                 ELSE [call EXCEPT !.pc = "done"]
    /\ UNCHANGED <<poolVars, fsockVars, hs>>

DispatchNext ==
    \/ dispatchEventName
    \/ dispatchEventLookup
    \/ dispatchEventHandler

DispatchSpec == DispatchInit /\ [][DispatchNext]_vars

(***************************************************************************)
(* filterEvents over the connects of one FSock.  connect() hands the map   *)
(* fs.eventFilters, which is the map the caller gave to NewFSock, to every *)
(* NewFSConn.  A map gives for each header the list of its values, the     *)
(* empty list for a header it does not have.  FreeSWITCH accepts every     *)
(* filter.                                                                 *)
(***************************************************************************)
FilterHeaders == {"Event-Name", "Unique-ID"}

GivenFilters ==
    { [h \in FilterHeaders |-> IF h = "Event-Name" THEN e ELSE u] :
        e \in {<<>>, <<"HEARTBEAT">>},
        u \in {[i \in 1..n |-> ToString(i)] : n \in 0..MaxFilterVals} }

\* len(filters)
LenFilters(m) == Cardinality({h \in FilterHeaders : m[h] # <<>>})

FilterEventsInit ==
    /\ NoFSockVars
    /\ NoPool
    /\ hs = NoNewFSConn
    /\ \E m \in GivenFilters, b \in BOOLEAN :
          call = [fn |-> "filterEvents", pc |-> "idle", given |-> m,
                  eventFilters |-> m, bgapi |-> b, todo |-> {}, cmds |-> {},
                  log |-> <<>>]

\* a connect gets to filterEvents: the test of len(filters), the append for
\* bgapi, and the start of the loops
filterEventsStart ==
    /\ call.fn = "filterEvents" /\ call.pc = "idle"
    /\ Len(call.log) < MaxConnects
    /\ IF LenFilters(call.eventFilters) = 0
       THEN call' = [call EXCEPT !.log = Append(@, {})]
       ELSE LET filters ==
                    IF call.bgapi
                    THEN [call.eventFilters EXCEPT
                            !["Event-Name"] = Append(@, "BACKGROUND_JOB")]
                    ELSE call.eventFilters
            IN call' = [call EXCEPT
                          !.pc = "send", !.eventFilters = filters, !.cmds = {},
                          !.todo = {x \in FilterHeaders \X (1..(MaxFilterVals + MaxConnects)) :
                                       x[2] <= Len(filters[x[1]])}]
    /\ UNCHANGED <<poolVars, fsockVars, hs>>

\* send("filter " + hdr + " " + val) and its accepted reply, for the next
\* value of some header
filterEventsValue ==
    /\ call.fn = "filterEvents" /\ call.pc = "send"
    /\ \E x \in call.todo :
          /\ \A y \in call.todo : y[1] = x[1] => x[2] <= y[2]
          /\ call' = [call EXCEPT
                        !.todo = @ \ {x},
                        !.cmds = @ \cup {<<x[1], x[2], call.eventFilters[x[1]][x[2]]>>}]
    /\ UNCHANGED <<poolVars, fsockVars, hs>>

\* the loops are through
filterEventsReturns ==
    /\ call.fn = "filterEvents" /\ call.pc = "send"
    /\ call.todo = {}
    /\ call' = [call EXCEPT !.pc = "idle", !.log = Append(@, call.cmds),
                            !.cmds = {}]
    /\ UNCHANGED <<poolVars, fsockVars, hs>>

FilterEventsNext ==
    \/ filterEventsStart
    \/ filterEventsValue
    \/ filterEventsReturns

FilterEventsSpec == FilterEventsInit /\ [][FilterEventsNext]_vars

(***************************************************************************)
(* splitIgnoreGroups taken alone.  A string is the sequence of its         *)
(* characters; positions count from 1, so that s[idx:i] of the source is   *)
(* SubSeq(s, idx, i - 1).                                                  *)
(***************************************************************************)
SplitChars == {"a", ",", "[", "]", "{", "}", "(", ")"}

SplitStrings == UNION { [1..n -> SplitChars] : n \in 0..MaxLen }

\* the separators: none, one character, two characters
SplitSeps == { <<>>, <<",">>, <<",", ",">> }

\* strings.HasPrefix(s[i:], sep)
HasPrefixAt(s, i, sep) ==
    /\ i + Len(sep) - 1 <= Len(s)
    /\ SubSeq(s, i, i + Len(sep) - 1) = sep

SplitInit ==
    /\ NoFSockVars
    /\ NoPool
    /\ hs = NoNewFSConn
    /\ \E s \in SplitStrings, sep \in SplitSeps :
          call = [fn |-> "splitIgnoreGroups", pc |-> "start", s |-> s,
                  sep |-> sep, i |-> 1, idx |-> 1, sqBrackets |-> 0,
                  crlBrackets |-> 0, parantheses |-> 0, sl |-> <<>>,
                  cuts |-> {}]

\* the tests for an empty string and an empty separator
splitStart ==
    /\ call.fn = "splitIgnoreGroups" /\ call.pc = "start"
    /\ call' = IF call.s = <<>> THEN [call EXCEPT !.pc = "done", !.sl = <<>>]
               ELSE IF call.sep = <<>>
               THEN [call EXCEPT !.pc = "done", !.sl = <<call.s>>]
               ELSE [call EXCEPT !.pc = "loop"]
    /\ UNCHANGED <<poolVars, fsockVars, hs>>

\* the cut that goes on one character after the separator's first
splitCutSkipsOne ==
    /\ call.fn = "splitIgnoreGroups" /\ call.pc = "loop"
    /\ call.i <= Len(call.s)
    /\ HasPrefixAt(call.s, call.i, call.sep)
    /\ call.sqBrackets = 0 /\ call.crlBrackets = 0 /\ call.parantheses = 0
    /\ call' = [call EXCEPT !.sl = Append(@, SubSeq(call.s, call.idx, call.i - 1)),
                            !.idx = call.i + 1,
                            !.i = call.i + 1,
                            !.cuts = @ \cup {call.i}]
    /\ UNCHANGED <<poolVars, fsockVars, hs>>

\* the cut that looks at the square brackets only
splitCutSquareOnly ==
    /\ call.fn = "splitIgnoreGroups" /\ call.pc = "loop"
    /\ call.i <= Len(call.s)
    /\ HasPrefixAt(call.s, call.i, call.sep)
    /\ call.sqBrackets = 0
    /\ call' = [call EXCEPT !.sl = Append(@, SubSeq(call.s, call.idx, call.i - 1)),
                            !.idx = call.i + Len(call.sep),
                            !.i = call.i + Len(call.sep),
                            !.cuts = @ \cup {call.i}]
    /\ UNCHANGED <<poolVars, fsockVars, hs>>

\* a turn of the loop at a separator outside all groups: the cut
splitCut ==
    /\ call.fn = "splitIgnoreGroups" /\ call.pc = "loop"
    /\ call.i <= Len(call.s)
    /\ HasPrefixAt(call.s, call.i, call.sep)
    /\ call.sqBrackets = 0 /\ call.crlBrackets = 0 /\ call.parantheses = 0
    /\ call' = [call EXCEPT !.sl = Append(@, SubSeq(call.s, call.idx, call.i - 1)),
                            !.idx = call.i + Len(call.sep),
                            !.i = call.i + Len(call.sep),
                            !.cuts = @ \cup {call.i}]
    /\ UNCHANGED <<poolVars, fsockVars, hs>>

\* the counter after a closing bracket
Closed(n) == IF n > 0 THEN n - 1 ELSE n

\* any other turn of the loop: the switch on s[i]
splitChar ==
    /\ call.fn = "splitIgnoreGroups" /\ call.pc = "loop"
    /\ call.i <= Len(call.s)
    /\ ~(/\ HasPrefixAt(call.s, call.i, call.sep)
         /\ call.sqBrackets = 0 /\ call.crlBrackets = 0 /\ call.parantheses = 0)
    /\ LET c == call.s[call.i] IN
         call' = [call EXCEPT
                    !.i = @ + 1,
                    !.sqBrackets = IF c = "[" THEN @ + 1
                                   ELSE IF c = "]" THEN Closed(@) ELSE @,
                    !.crlBrackets = IF c = "{" THEN @ + 1
                                    ELSE IF c = "}" THEN Closed(@) ELSE @,
                    !.parantheses = IF c = "(" THEN @ + 1
                                    ELSE IF c = ")" THEN Closed(@) ELSE @]
    /\ UNCHANGED <<poolVars, fsockVars, hs>>

\* after the loop: sl = append(sl, s[idx:])
splitTail ==
    /\ call.fn = "splitIgnoreGroups" /\ call.pc = "loop"
    /\ call.i > Len(call.s)
    /\ call' = [call EXCEPT !.pc = "done",
                            !.sl = Append(@, SubSeq(call.s, call.idx, Len(call.s)))]
    /\ UNCHANGED <<poolVars, fsockVars, hs>>

SplitNext ==
    \/ splitStart
    \/ splitCut
    \/ splitChar
    \/ splitTail

SplitSpec == SplitInit /\ [][SplitNext]_vars

(***************************************************************************)
(* Properties.                                                             *)
(***************************************************************************)
\* the BACKGROUND_JOB events with Job-UUID u that session s has read, in order
ReadBy(s, u) == SelectSeq(evLog, LAMBDA e : e.s = s /\ e.uuid = u)

SendEnds(t) == th[t].pc = "send_wait" /\ th'[t].pc = "idle"

\* caller t's Send takes a reply from the reader in this step
TakesReply(t) ==
    /\ SendEnds(t)
    /\ rdr[th[t].sess].pc = "pubReply"
    /\ rdr'[th[t].sess].pc = "hdr"

\* C2, as stated: a synchronous send that returns a reply returns the reply
\* FreeSWITCH emitted for the command that send wrote.
C2_ReplyOfThatCommand ==
    [][\A t \in Callers :
          TakesReply(t) => rdr[th[t].sess].f.cmd = th[t].cmd]_vars

\* C3, as stated: when a synchronous send stops waiting because replyTimeout
\* elapsed, the socket of its session is closed by the time it returns.
C3_TimeoutClosesSession ==
    [][\A t \in Callers :
          SendEnds(t) /\ ret'[t].err = ErrDeadline
              => conn'[th[t].sess] = "closed"]_vars

\* C4, as stated: a synchronous send that was waiting when the reader of its
\* session failed (the reader closed the socket and is offering its error)
\* returns that error.
C4_SendReturnsReaderError ==
    [][\A t \in Callers :
          (/\ SendEnds(t)
           /\ conn[th[t].sess] = "closed"
           /\ rdr[th[t].sess].pc = "pubErr")
              => ret'[t].err = rdr[th[t].sess].err]_vars

\* e is txt without the white space at its two ends
IsTrimOf(e, txt) ==
    \E i, k \in 1..Len(txt) :
        /\ e = SubSeq(txt, i, k)
        /\ ~IsSpace(txt[i]) /\ ~IsSpace(txt[k])
        /\ \A n \in 1..Len(txt) : (n < i \/ n > k) => IsSpace(txt[n])

\* C5: a synchronous send that takes a reply containing -ERR returns no value
\* and an error that is the reply without the white space at its ends; the
\* session is still the FSock's session, its socket is open, its reader is
\* back at reading the next frame, and its watcher has not moved.
C5_ErrReplyKeepsSession ==
    [][\A t \in Callers :
          LET s == th[t].sess
              reply == rdr[s].f.txt
          IN  TakesReply(t) /\ Contains(reply, "-ERR") =>
                /\ ret'[t].val = <<>>
                /\ IsTrimOf(ret'[t].err, reply)
                /\ Contains(ret'[t].err, "-ERR")
                /\ fsConn' = s
                /\ conn'[s] = "open"
                /\ rdr'[s].pc = "hdr"
                /\ th'[s] = th[s]]_vars

\* C5: after a send returned an -ERR error, the next send on the same session
\* is waiting and the reader is handing it the reply to its command
C5_Witness ==
    \E t \in Callers :
        /\ Contains(ret[t].err, "-ERR")
        /\ th[t].pc = "send_wait"
        /\ th[t].cmd = ret[t].cmd + 1
        /\ fsConn = th[t].sess
        /\ rdr[th[t].sess].pc = "pubReply"
        /\ rdr[th[t].sess].f.cmd = th[t].cmd

\* C6, as stated: at most one value is ever sent on the stop-error channel.
C6_AtMostOneStopError == Len(stopError) <= 1

\* the watcher of session s ends, in this step, a reconnect loop that failed
WatcherAbandons(s) ==
    /\ th[s].op = "watch" /\ th[s].pc = "rc_done" /\ th[s].err # Nil
    /\ th'[s].pc = "done"

\* C7, as stated: with reconnects = k >= 0, a watcher whose connection
\* attempts all failed has made k+1 attempts when it emits its one error.
C7_AttemptsAreKPlusOne ==
    [][\A s \in Sessions :
          WatcherAbandons(s) /\ cfg.reconnects >= 0 =>
              /\ th[s].i = cfg.reconnects + 1
              /\ stopError' = Append(stopError, th[s].err)]_vars

\* C7, as the code has it: with reconnects = k >= 0, a watcher whose
\* connection attempts all failed has made exactly k attempts when it emits
\* its one error on stopError, and it ends with that emission.
C7_AttemptsAreK ==
    [][\A s \in Sessions :
          WatcherAbandons(s) /\ cfg.reconnects >= 0 =>
              /\ th[s].i = cfg.reconnects
              /\ stopError' = Append(stopError, th[s].err)
              /\ th'[s] = Exited]_vars

\* C7: a watcher has made two failed attempts and is about to emit the error
C7_Witness ==
    \E s \in Sessions :
        /\ th[s].op = "watch" /\ th[s].pc = "rc_done"
        /\ th[s].err = ErrDial
        /\ th[s].i = 2

\* C8, as stated: when the reader ended with an error that is not EOF, the
\* watcher puts that error on stopError and the FSock is disconnected.
C8_OtherErrorIsSurfaced ==
    [][\A s \in Sessions :
          th[s].pc = "sig_nil" /\ th'[s].pc = "done" =>
              /\ stopError' = Append(stopError, th[s].rerr)
              /\ fsConn' = 0]_vars

\* C9, as stated: from an explicit Disconnect until a caller invokes Connect,
\* ReconnectIfNeeded or a send, the FSock has no session; here for the runs
\* in which the network never failed, so that the reader ended because the
\* Disconnect closed its socket.
C9_StaysDisconnected == explicitDisc /\ cnt.fails = 0 => fsConn = 0

\* caller t waits for a reply without deadline on a session whose reader has
\* ended: no step of any thread ends this wait or releases the lock
SendStuck(t) ==
    /\ mu.w = t
    /\ th[t].pc = "send_wait"
    /\ cfg.replyTimeout = 0
    /\ rdr[th[t].sess].pc \in {"pubErr", "exited"}

\* C10, as stated, in its finite form: a watcher that received an EOF error
\* and may reconnect is never left waiting for a lock that is never released.
C10_WatcherReconnects ==
    \A s \in Sessions :
        th[s].pc = "rlock" /\ cfg.reconnects # 0 =>
            ~ \E t \in Callers : SendStuck(t)

\* a stuck send stays stuck
SendStuckIsStable ==
    [][\A t \in Callers : SendStuck(t) => SendStuck(t)']_vars

\* caller t's reconnectIfNeeded runs connect() in this step
CallerAttempts(t) ==
    /\ th[t].pc = "rc_loop"
    /\ \/ nSess' # nSess
       \/ th'[t].pc = "rc_loop" /\ th'[t] # th[t]

\* caller t's Send writes, or fails to write, in this step
CallerWrites(t) ==
    /\ th[t].pc = "rc_done" /\ th[t].err = Nil
    /\ th[t].op \in {"SendCmd", "SendBgapiCmd"}
    /\ th'[t].pc \in {"send_wait", "idle"}

\* caller t returns the error of reconnectIfNeeded in this step
CallerFails(t) ==
    /\ th[t].pc = "rc_done" /\ th[t].err # Nil
    /\ th'[t].pc = "idle"

LiveSessions ==
    {s \in Sessions : conn[s] = "open" /\ rdr[s].pc \in {"hdr", "body", "pubReply"}}

\* C12, as stated: at most one session created by the FSock has an open
\* socket and a running reader.
C12_OneLiveSession == Cardinality(LiveSessions) <= 1

\* fs.fsConn goes from nil to a session or back in this step
NilChange == (fsConn = 0) # (fsConn' = 0)

\* the step is a whole Connect or Disconnect call: Lock, the change, Unlock
WholeCall == cnt'.ops = cnt.ops + 1 /\ LockFree

\* C13, as stated: every change of fs.fsConn between nil and non-nil is made
\* by a thread that holds fs.mu in write mode, so that no read lock is held
\* while it happens.
C13_ChangeUnderWriteLock ==
    [][NilChange => mu.r = {} /\ (mu.w # 0 \/ WholeCall)]_vars

\* the threads inside a send or a lifecycle transition: the caller holding
\* fs.mu in write mode and the watchers between their RLock and RUnlock
InTransition == (IF mu.w = 0 THEN {} ELSE {mu.w}) \cup mu.r

\* C14, as stated: sends and lifecycle transitions exclude one another; at
\* most one thread is inside a send, a connect, a disconnect or a reconnect.
C14_OneTransitionAtATime == Cardinality(InTransition) <= 1

\* the FSocks checked out, each with the caller holding it
CheckedOut == {x \in PoolCallers \X Made : x[2] \in pth[x[1]].held}

\* C15, as stated: idle FSocks plus checked-out FSocks plus permits make the
\* pool's capacity in every state; here for callers that have released nil
\* only after a failed PopFSock.
C15_PoolSumIsCapacity ==
    ~pool.nil /\ pcnt.stray = 0 =>
        Len(fSocks) + Cardinality(CheckedOut) + allowedConns = pool.maxFSocks

\* no FSock is idle and checked out, checked out twice, or idle twice
PoolExclusive ==
    /\ \A i, k \in 1..Len(fSocks) : fSocks[i] = fSocks[k] => i = k
    /\ \A x \in CheckedOut : \A i \in 1..Len(fSocks) : fSocks[i] # x[2]
    /\ \A x, y \in CheckedOut : x[2] = y[2] => x[1] = y[1]

\* C16, as stated: for callers that release each FSock they acquired at
\* most once, at most maxFSocks FSocks are checked out at a time and every
\* FSock is idle or checked out to one caller, not both.
C16_AtMostNCheckedOut ==
    ~pool.nil =>
        /\ Cardinality(CheckedOut) <= pool.maxFSocks
        /\ PoolExclusive

\* C16, as the code has it: the same, for callers that moreover release nil
\* only after a PopFSock whose NewFSock failed, once for each; then permits,
\* idle FSocks and checked-out FSocks together never exceed maxFSocks.
C16_AtMostNCheckedOutNoStrayNil ==
    ~pool.nil /\ pcnt.stray = 0 =>
        /\ Cardinality(CheckedOut) <= pool.maxFSocks
        /\ Len(fSocks) + Cardinality(CheckedOut) + allowedConns <= pool.maxFSocks
        /\ PoolExclusive

\* C16: the pool's capacity is checked out while another caller waits in
\* the select of PopFSock
C16_Witness ==
    /\ ~pool.nil /\ pcnt.stray = 0
    /\ Cardinality(CheckedOut) = pool.maxFSocks
    /\ \E c \in PoolCallers : pth[c].pc = "select"

\* C17, as stated: no PopFSock waits without the bound of maxWaitConn; a
\* caller that is past the len(fs.fSocks) test and receives from fs.fSocks
\* outside the select, where no timer runs, has an FSock to receive.
C17_AcquireWaitIsBounded ==
    \A c \in PoolCallers : pth[c].pc = "fast" => fSocks # <<>>

\* the steps of caller c in a call of PushFSock
PushStarts(c) ==
    pth[c].pc = "idle" /\ pth'[c].pc \in {"push_permit", "push_idle"}

PushEnds(c) ==
    pth[c].pc \in {"push_permit", "push_idle"} /\ pth'[c].pc = "idle"

\* C18: PushFSock on a configured pool sends one permit and leaves fs.fSocks
\* alone when its argument is nil or reports not connected, and otherwise
\* appends the argument to fs.fSocks and leaves the permits alone; on a nil
\* pool PushFSock changes nothing and PopFSock returns the unconfigured error.
C18_PushFrame ==
    [][\A c \in PoolCallers :
          /\ PushStarts(c) =>
                LET k == pth'[c].arg IN
                /\ ~pool.nil
                /\ pth'[c].pc = "push_permit" <=> (k = 0 \/ ~fsocks[k].connected)
                /\ allowedConns' = allowedConns /\ fSocks' = fSocks
          /\ PushEnds(c) =>
                IF pth[c].pc = "push_permit"
                THEN allowedConns' = allowedConns + 1 /\ fSocks' = fSocks
                ELSE /\ fSocks' = Append(fSocks, pth[c].arg)
                     /\ allowedConns' = allowedConns
          /\ pool.nil =>
                /\ allowedConns' = allowedConns /\ fSocks' = fSocks
                /\ fsocks' = fsocks /\ pool' = pool
                /\ pth'[c].pc = "idle" /\ pth'[c].held = {}
                /\ pth'[c] # pth[c] => pth'[c].err = ErrUnconfigured
      ]_vars

\* C18: one FSock was released connected and is idle, another was released
\* not connected and its permit is back
C18_Witness ==
    /\ ~pool.nil /\ pcnt.stray = 0
    /\ \A c \in PoolCallers : pth[c].pc = "idle" /\ pth[c].owes = 0
    /\ Len(fSocks) = 1 /\ allowedConns = pool.maxFSocks - 1
    /\ \E k \in Made :
          /\ fsocks[k].made /\ ~fsocks[k].connected
          /\ k # fSocks[1]
          /\ \A c \in PoolCallers : k \notin pth[c].held

\* C19, as stated: every FSock the pool constructs has the pool's
\* replyTimeout as its replyTimeout and the pool's maxReconnectInterval as
\* its maxReconnectInterval.
C19_ParametersInTheirRoles ==
    \A k \in Made :
        fsocks[k].made =>
            /\ fsocks[k].replyTimeout = pool.replyTimeout
            /\ fsocks[k].maxReconnectInterval = pool.maxReconnectInterval

\* the needle NewFSConn looks for in the i-th header block it reads
ExpectedIn(i) ==
    IF i = 1 THEN "auth/request"
    ELSE IF i = 2 THEN "Reply-Text: +OK accepted"
    ELSE "Reply-Text: +OK"

\* the i-th read of the handshake succeeded and its block was accepted
Accepted(i) ==
    hs.rcvd[i].e = "nil" /\ HeadersContain(hs.rcvd[i].hdr, ExpectedIn(i))

\* the commands of a whole handshake
WholeHandshake ==
    <<"auth">> \o [i \in 1..(IF hs.evFilters = 0 THEN 0
                             ELSE hs.evFilters + (IF hs.bgapi THEN 1 ELSE 0))
                     |-> "filter"]
               \o <<"event plain">>

\* C20: NewFSConn returns an FSConn only after the whole handshake was
\* accepted, with the connection open and one reader started; a failed step
\* ends the call with an error, the connection closed (none was made when the
\* dial failed) and no reader started.
C20_AllOrNothing ==
    /\ hs.readers <= 1
    /\ hs.pc \in {"challenge", "auth", "auth_reply", "filter", "filter_reply",
                  "events", "events_reply", "fork"} =>
          /\ \A i \in 1..Len(hs.rcvd) : Accepted(i)
          /\ hs.conn = "open" /\ hs.readers = 0
    /\ hs.ret.fsConn =>
          /\ hs.pc = "done" /\ hs.ret.err = Nil
          /\ hs.conn = "open" /\ hs.readers = 1
          /\ hs.sent = WholeHandshake
          /\ Len(hs.rcvd) = Len(hs.sent) + 1
          /\ \A i \in 1..Len(hs.rcvd) : Accepted(i)
    /\ hs.pc = "done" /\ ~hs.ret.fsConn =>
          /\ hs.ret.err # Nil
          /\ hs.readers = 0
          /\ hs.conn = IF hs.ret.err = ErrDial THEN "none" ELSE "closed"

\* C20: a call with filters and bgapi returned an FSConn
C20_Witness ==
    /\ hs.pc = "done" /\ hs.ret.fsConn
    /\ hs.evFilters = MaxFilters /\ hs.bgapi
    /\ hs.readers = 1 /\ hs.conn = "open"

\* C21: the error channel of a session is received from at most once, the
\* value received is the one the reader sends after its first failed read,
\* and a reader that has a read error sends no reply, forks no
\* doBackgroundJob and reads no more: it waits at its send and then returns.
C21_OneTerminalError ==
    [][\A s \in Sessions :
          /\ th[s].pc \notin {"none", "wait"} => th'[s].pc # "wait"
          /\ th[s].pc = "wait" /\ th'[s].pc # "wait" =>
                /\ rdr[s].pc = "pubErr" /\ rdr[s].err # Nil
                /\ th'[s].rerr = rdr[s].err
                /\ rdr'[s].pc = "exited"
          /\ rdr[s].pc # "pubErr" /\ rdr'[s].pc = "pubErr" =>
                rdr[s].pc \in {"hdr", "body"}
          /\ rdr[s].pc = "pubErr" =>
                rdr'[s] = rdr[s] \/ (rdr'[s].pc = "exited" /\ th[s].pc = "wait")
          /\ rdr[s].pc = "exited" => rdr'[s].pc = "exited"
          /\ rdr[s].pc \in {"pubErr", "exited"} =>
                /\ \A j \in bg' : j.s = s /\ j.pc = "start" => j \in bg
                /\ \A t \in Callers :
                      th[t].pc = "send_wait" /\ th[t].sess = s /\ th'[t].pc = "idle"
                         => ret'[t].err = ErrDeadline
      ]_vars

\* C21: the reader of a session has sent a read error other than io.EOF and
\* returned, after a reply of that session was taken
C21_Witness ==
    \E s \in Sessions :
        /\ rdr[s].pc = "exited"
        /\ th[s].pc = "done" /\ stopError # <<>>
        /\ \E t \in Callers : ret[t].op = "SendCmd" /\ ret[t].err = Nil

\* the keys of ks that do not start with CUSTOM, each after a space, in order
RECURSIVE PlainKeys(_)
PlainKeys(ks) ==
    IF ks = <<>> THEN <<>>
    ELSE (IF HasPrefixCustom(Head(ks)) THEN <<>> ELSE <<" ">> \o Head(ks))
         \o PlainKeys(Tail(ks))

\* what follows CUSTOM in the keys of ks that start with it, in order
RECURSIVE CustomSuffixes(_)
CustomSuffixes(ks) ==
    IF ks = <<>> THEN <<>>
    ELSE (IF HasPrefixCustom(Head(ks)) THEN Tail(Head(ks)) ELSE <<>>)
         \o CustomSuffixes(Tail(ks))

\* the command the claim gives for the keys ks and the flag b
SubscriptionFor(ks, b) ==
    IF \E i \in 1..Len(ks) : ks[i] = <<"ALL">>
    THEN EventPlainAll \o <<"\n", "\n">>
    ELSE EventPlain \o PlainKeys(ks)
         \o (IF b THEN <<" ", "BACKGROUND_JOB">> ELSE <<>>)
         \o (IF \E i \in 1..Len(ks) : HasPrefixCustom(ks[i])
             THEN <<" ", "CUSTOM">> \o CustomSuffixes(ks) ELSE <<>>)
         \o <<"\n", "\n">>

\* C22, as stated: the command eventsPlain sends is "event plain all" when
\* ALL is a key, and otherwise "event plain", the keys that do not start with
\* CUSTOM, BACKGROUND_JOB exactly with bgapi, and CUSTOM with the suffixes
\* exactly when some key starts with CUSTOM.
C22_SubscriptionCommand ==
    call.fn = "eventsPlain" /\ call.pc = "sent" =>
        call.sent = SubscriptionFor(call.events, call.bgapi)

\* the Reply-Text value of the frame on the wire, without the spaces around
ReplyTextOnWire ==
    LET vals == { l.val : l \in { call.wireHdr[i] : i \in 1..Len(call.wireHdr) } \cap
                                { x \in FrameLines : x.name = "Reply-Text" } }
    IN IF vals = {} THEN {<<>>} ELSE { TrimSpace(v) : v \in vals }

\* C23: a frame read without error goes to one destination: with
\* api/response in its header its body is sent on fsConn.replies as it came;
\* else with command/reply its Reply-Text value is sent on fsConn.replies;
\* else with a body it goes to dispatchEvent and not to fsConn.replies;
\* else it goes nowhere.
C23_FrameRouting ==
    call.fn = "readEvents" /\ call.pc = "routed" =>
        LET api == \E i \in 1..Len(call.wireHdr) :
                       call.wireHdr[i].val = <<"api/response">>
            rpl == \E i \in 1..Len(call.wireHdr) :
                       call.wireHdr[i].val = <<"command/reply">>
            body == IF \E i \in 1..Len(call.wireHdr) :
                           call.wireHdr[i].name = "Content-Length"
                    THEN call.wireBody ELSE <<>>
        IN  /\ api => call.to = "replies" /\ call.out = body
            /\ ~api /\ rpl => call.to = "replies" /\ call.out \in ReplyTextOnWire
            /\ ~api /\ ~rpl /\ body # <<>> =>
                   call.to = "dispatchEvent" /\ call.out = body
            /\ ~api /\ ~rpl /\ body = <<>> => call.to = "none"

\* C23: a frame with both content types in its header was routed as an
\* api/response
C23_Witness ==
    /\ call.fn = "readEvents" /\ call.pc = "routed"
    /\ HeaderHas(call.hdr, "api/response") /\ HeaderHas(call.hdr, "command/reply")
    /\ call.to = "replies"

\* the dispatch key the claim gives for the event of the call
DispatchKeyOf(ev) ==
    IF ev.name # <<"CUSTOM">> \/ ev.subclass = <<>> THEN ev.name
    ELSE IF ev.subclass = <<"sofia", "%3A", "%3A", "register">>
    THEN <<"CUSTOM", " ", "sofia", ":", ":", "register">>
    ELSE IF ev.subclass = <<"a", "+", "b">> THEN <<"CUSTOM", " ", "a", " ", "b">>
    ELSE <<"CUSTOM", " ">> \o ev.subclass

\* the list the claim chooses: that of the dispatch key, else that of ALL
ChosenKey(ev, m) ==
    LET key == DispatchKeyOf(ev) IN
    IF key \in DispatchKeys /\ m[key] # -1 THEN key
    ELSE IF m[<<"ALL">>] # -1 THEN <<"ALL">>
    ELSE <<>>

\* C24: dispatchEvent looks up the handlers of the event name, or of
\* "CUSTOM " and the decoded Event-Subclass, before those of ALL, invokes each
\* handler of the list it finds once with the event as it came and connIdx,
\* and with neither list invokes none and logs the warning.
C24_DispatchToHandlers ==
    call.fn = "dispatchEvent" /\ call.pc = "done" =>
        LET key == ChosenKey(call.event, call.eventHandlers) IN
        IF key = <<>>
        THEN call.invoked = <<>> /\ call.warned
        ELSE /\ ~call.warned
             /\ Len(call.invoked) = call.eventHandlers[key]
             /\ \A i \in 1..Len(call.invoked) :
                   call.invoked[i] = [key |-> key, k |-> i, event |-> call.event,
                                      connIdx |-> call.connIdx]

\* C24: a CUSTOM event with an escaped subclass went to the two handlers of
\* its own key although ALL has handlers too
C24_Witness ==
    /\ call.fn = "dispatchEvent" /\ call.pc = "done"
    /\ call.event.subclass = <<"sofia", "%3A", "%3A", "register">>
    /\ call.eventHandlers[<<"ALL">>] > 0
    /\ Len(call.invoked) = 2
    /\ call.invoked[1].key = <<"CUSTOM", " ", "sofia", ":", ":", "register">>

\* C25, as stated: a SendBgapiCmd that returned an error returned no channel
\* and left no entry for its Job-UUID in the job map of any session.
C25_FailedSubmissionLeavesNoEntry ==
    \A t \in Callers :
        ret[t].op = "SendBgapiCmd" /\ ret[t].err # Nil /\ ret[t].cmd # 0 =>
            /\ ret[t].ch = 0
            /\ \A s \in Sessions : bgapiChan[s][ret[t].cmd] = 0

\* C29, as stated: a doBackgroundJob that is sending, or about to send, the
\* body on the channel of its job does not hold the job-map lock of its
\* session.
C29_SendsWithoutJobMapLock ==
    \A j \in bg : j.pc = "send" => ~bgapiMux[j.s]

\* the completers that are at their channel send
Senders == {k \in bg : k.pc = "send"}

\* C30: for one Job-UUID at most one BACKGROUND_JOB event gets to send or
\* has delivered; a doBackgroundJob that finds its Job-UUID in the job map
\* removes the entry before it sends, and one that does not find it ends
\* there: it sends on no channel and leaves the job map as it was.
C30_FirstCompleterWins ==
    [][/\ \A u \in UUIDs :
             Cardinality({k \in bg' : k.pc = "send" /\ k.ch = u})
                 + Len(chanRecv'[u]) <= 1
       /\ \A j \in Completers :
             j \in bg /\ j.pc = "start" /\ j \notin bg' =>
                IF bgapiChan[j.s][j.uuid] = 0
                THEN /\ bgapiChan' = bgapiChan
                     /\ chanRecv' = chanRecv
                     /\ bgapiMux' = bgapiMux
                     /\ {k \in bg' : k.pc = "send"} \subseteq Senders
                ELSE /\ bgapiChan'[j.s][j.uuid] = 0
                     /\ [j EXCEPT !.pc = "send", !.ch = bgapiChan[j.s][j.uuid]] \in bg'
      ]_vars

\* C30: two BACKGROUND_JOB events of one job were read, one was delivered
\* and the other dropped
C30_Witness ==
    /\ bg = {}
    /\ \E u \in UUIDs :
          /\ Len(chanRecv[u]) = 1
          /\ chans[u] # 0
          /\ Len(ReadBy(chans[u], u)) = 2

\* C26, as stated: the filter map of the FSock stays as the caller gave it,
\* and every connect sends the filter commands the first connect sent.
C26_FiltersStayAsGiven ==
    call.fn = "filterEvents" =>
        /\ call.eventFilters = call.given
        /\ \A i \in 1..Len(call.log) : call.log[i] = call.log[1]

\* strings.Join(sl, sep)
RECURSIVE Join(_, _)
Join(sl, sep) ==
    IF sl = <<>> THEN <<>>
    ELSE IF Len(sl) = 1 THEN sl[1]
    ELSE sl[1] \o sep \o Join(Tail(sl), sep)

\* the brackets open and not yet closed before position i, for one kind of
\* bracket, a closing bracket with none open counting for nothing
RECURSIVE OpenBefore(_, _, _, _)
OpenBefore(s, i, open, close) ==
    IF i <= 1 THEN 0
    ELSE LET n == OpenBefore(s, i - 1, open, close) IN
         IF s[i - 1] = open THEN n + 1
         ELSE IF s[i - 1] = close /\ n > 0 THEN n - 1
         ELSE n

OutsideGroups(s, i) ==
    /\ OpenBefore(s, i, "[", "]") = 0
    /\ OpenBefore(s, i, "{", "}") = 0
    /\ OpenBefore(s, i, "(", ")") = 0

\* every kind of bracket is closed as often as opened, never before it opens
Balanced(s) ==
    \A k \in {<<"[", "]">>, <<"{", "}">>, <<"(", ")">>} :
        /\ OpenBefore(s, Len(s) + 1, k[1], k[2]) = 0
        /\ Cardinality({i \in 1..Len(s) : s[i] = k[1]})
              = Cardinality({i \in 1..Len(s) : s[i] = k[2]})

\* C27: for a string with balanced brackets and a non-empty separator, the
\* elements splitIgnoreGroups returns, joined by the separator, are the
\* string.
C27_JoinOfSplit ==
    call.fn = "splitIgnoreGroups" /\ call.pc = "done"
        /\ call.sep # <<>> /\ Balanced(call.s) =>
            Join(call.sl, call.sep) = call.s

\* C27: a string with a group and separators inside and outside it was split
\* by the two-character separator
C27_Witness ==
    /\ call.fn = "splitIgnoreGroups" /\ call.pc = "done"
    /\ call.sep = <<",", ",">> /\ Balanced(call.s)
    /\ Len(call.sl) = 2
    /\ \E i \in 1..Len(call.s) : call.s[i] = "["

\* the places of the separator outside all groups, found from position i on
\* from left to right, an occurrence inside the one before it not counting
RECURSIVE CutsFrom(_, _, _)
CutsFrom(s, sep, i) ==
    IF i > Len(s) THEN {}
    ELSE IF HasPrefixAt(s, i, sep) /\ OutsideGroups(s, i)
         THEN {i} \cup CutsFrom(s, sep, i + IF sep = <<>> THEN 1 ELSE Len(sep))
         ELSE CutsFrom(s, sep, i + 1)

\* strings.Split(s, sep)
RECURSIVE PlainSplit(_, _)
PlainSplit(s, sep) ==
    IF sep = <<>> THEN [i \in 1..Len(s) |-> <<s[i]>>]
    ELSE LET at == {i \in 1..Len(s) : HasPrefixAt(s, i, sep)} IN
         IF at = {} THEN <<s>>
         ELSE LET i == CHOOSE j \in at : \A k \in at : j <= k IN
              <<SubSeq(s, 1, i - 1)>>
                 \o PlainSplit(SubSeq(s, i + Len(sep), Len(s)), sep)

NoBrackets(s) == \A i \in 1..Len(s) : s[i] \in {"a", ","}

\* the text after the last cut
AfterLastCut(s, sep, cuts) ==
    IF cuts = {} THEN s
    ELSE LET last == CHOOSE j \in cuts : \A k \in cuts : k <= j IN
         SubSeq(s, last + Len(sep), Len(s))

\* what the statement on cutting says of a finished call
SplitAsStated ==
    /\ call.cuts = CutsFrom(call.s, call.sep, 1)
    /\ Len(call.sl) = Cardinality(call.cuts) + 1
    /\ call.sl[Len(call.sl)] = AfterLastCut(call.s, call.sep, call.cuts)
    /\ NoBrackets(call.s) => call.sl = PlainSplit(call.s, call.sep)

\* C28: for a non-empty string and a non-empty separator, splitIgnoreGroups
\* cuts at a separator exactly when it lies outside every group opened and
\* not yet closed; without brackets the result is that of the plain split;
\* the text after the last cut is the last element returned.
C28_CutsOutsideGroups ==
    call.fn = "splitIgnoreGroups" /\ call.pc = "done"
        /\ call.s # <<>> /\ call.sep # <<>> =>
            SplitAsStated

\* C28: a string was cut at a separator outside its group and not at the one
\* inside
C28_Witness ==
    /\ call.fn = "splitIgnoreGroups" /\ call.pc = "done"
    /\ call.sep = <<",">>
    /\ call.s = <<"(", ",", ")", ",">>
    /\ call.sl = << <<"(", ",", ")">>, <<>> >>

\* C28 as stated, for every string and every separator
C28_AnyInput ==
    call.fn = "splitIgnoreGroups" /\ call.pc = "done" =>
        SplitAsStated

\* the handshake so far is a beginning of the whole one, every block read
\* was accepted, and the last command sent has its answer
AnsweredSoFar ==
    /\ Len(hs.sent) <= Len(WholeHandshake)
    /\ hs.sent = SubSeq(WholeHandshake, 1, Len(hs.sent))
    /\ Len(hs.rcvd) = Len(hs.sent) + 1
    /\ \A i \in 1..Len(hs.rcvd) : Accepted(i)

\* C31: NewFSConn reads the auth challenge, then sends auth, the filters and
\* the event subscription in this order, each command only after the answer
\* to the one before was read and accepted, and reads an answer only to a
\* command it has sent; after a failed step it does nothing more; it starts
\* the reader only when the whole handshake has been sent and accepted.
C31_HandshakeInOrder ==
    [][/\ hs'.sent # hs.sent =>
            /\ AnsweredSoFar
            /\ Len(hs'.sent) = Len(hs.sent) + 1
            /\ Len(hs'.sent) <= Len(WholeHandshake)
            /\ hs'.sent = SubSeq(WholeHandshake, 1, Len(hs'.sent))
            /\ hs'.rcvd = hs.rcvd
       /\ hs'.rcvd # hs.rcvd =>
            /\ Len(hs.rcvd) = Len(hs.sent)
            /\ \A i \in 1..Len(hs.rcvd) : Accepted(i)
            /\ Len(hs'.rcvd) = Len(hs.rcvd) + 1
            /\ SubSeq(hs'.rcvd, 1, Len(hs.rcvd)) = hs.rcvd
            /\ ~(hs'.rcvd[Len(hs'.rcvd)].e = "nil"
                   /\ HeadersContain(hs'.rcvd[Len(hs'.rcvd)].hdr,
                                     ExpectedIn(Len(hs'.rcvd)))) =>
                  hs'.pc = "done" /\ ~hs'.ret.fsConn
       /\ hs.pc = "done" => hs' = hs
       /\ hs'.readers # hs.readers =>
            /\ hs.readers = 0 /\ hs'.readers = 1
            /\ AnsweredSoFar
            /\ hs.sent = WholeHandshake
            /\ hs'.sent = hs.sent /\ hs'.rcvd = hs.rcvd
      ]_vars

\* C31: a handshake with filters and bgapi has had its subscription
\* accepted and is about to start the reader
C31_Witness ==
    /\ hs.pc = "fork"
    /\ hs.evFilters = MaxFilters /\ hs.bgapi
    /\ hs.sent = WholeHandshake
    /\ Len(hs.rcvd) = MaxFilters + 4

\* C32: the reader of a session is never waiting for a handler: it is
\* reading, publishing a reply or its error, or gone; with a frame to read it
\* can read it, and with a reply to publish and a send waiting for it the
\* send can take it, whatever handlers are still running.
C32_ReaderNeverWaits ==
    \A s \in Sessions :
        /\ rdr[s].pc \in {"none", "hdr", "body", "pubReply", "pubErr", "exited"}
        /\ rdr[s].pc = "hdr" /\ wire[s] # <<>> => ENABLED readHeaders(s)
        /\ rdr[s].pc = "body" => ENABLED readBody(s)
        /\ rdr[s].pc = "pubReply" =>
              \A t \in Callers :
                  th[t].pc = "send_wait" /\ th[t].sess = s => ENABLED SendReply(t)

\* C32: a handler is still running while a BACKGROUND_JOB event read after
\* its event has been dispatched and a command submitted after its start
\* has got its reply
C32_Witness ==
    \E h \in hnd :
        /\ Len(evLog) > h.evs
        /\ \E t \in Callers :
              /\ ret[t].op = "SendCmd" /\ ret[t].cmd > h.cmds
              /\ ret[t].err = Nil

C34_FastPathTakesHead ==
    [][\A c \in PoolCallers :
          /\ pth[c].pc = "idle" /\ pth'[c].pc \in {"fast", "select"} =>
                (pth'[c].pc = "fast" <=> fSocks # <<>>)
          /\ pth[c].pc = "fast" /\ pth'[c].pc # "fast" =>
                /\ fSocks # <<>>
                /\ pth'[c].pc = "idle" /\ pth'[c].err = Nil
                /\ pth'[c].held = pth[c].held \cup {Head(fSocks)}
                /\ fSocks' = Tail(fSocks)
                /\ allowedConns' = allowedConns
                /\ pcnt'.made = pcnt.made /\ fsocks' = fsocks
      ]_vars

\* C34: a PopFSock found the queue not empty and is at its receive, with two
\* idle FSocks in the queue, the one constructed second released first
C34_Witness ==
    \E c \in PoolCallers :
        /\ pth[c].pc = "fast"
        /\ fSocks = <<2, 1>>
        /\ allowedConns = 0

\* the watcher of session s is at its send on stopError after its reconnect
\* loop returned an error
SignalsErr(s) ==
    th[s].pc = "rc_done" /\ th[s].op = "watch" /\ th[s].err # Nil

\* C35, as stated: a watcher at its send on the stop-error channel does not
\* hold the lock of the FSock, so that a caller can take it.
C35_SignalsWithoutLock ==
    \A s \in Sessions : SignalsErr(s) => s \notin mu.r

\* C36, as stated, in its finite form: with a finite reconnect limit no
\* send is left waiting, the lock held, for a reply that no step can bring;
\* such a send never returns and the watcher never gets the lock.
C36_EverySendReturns ==
    cfg.reconnects # -1 => \A t \in Callers : ~SendStuck(t)

\* no call holds the lock, no watcher is between its receive and its return,
\* and no reader is waiting to hand over its error
NoTransition ==
    /\ LockFree
    /\ \A s \in Sessions : th[s].pc \in {"none", "wait", "done"}
    /\ \A s \in Sessions : rdr[s].pc # "pubErr"

\* C37, as stated: when no transition is in progress and the FSock has a
\* session (Connected() reports true), the reader of that session is running
\* and its socket is open.
C37_ConnectedMeansReading ==
    NoTransition /\ fsConn # 0 =>
        /\ rdr[fsConn].pc \in {"hdr", "body", "pubReply"}
        /\ conn[fsConn] = "open"

\* the FSocks the pool constructed that have a session
ConnectedFSocks == {k \in Made : fsocks[k].made /\ fsocks[k].connected}

\* C38, as stated: at most maxFSocks of the FSocks a pool constructed are
\* connected at the same time, also after an FSock was released while it was
\* disconnected and has reconnected since; here for callers that have
\* released nil only after a PopFSock whose NewFSock failed.
C38_AtMostNConnected ==
    ~pool.nil /\ pcnt.stray = 0 => Cardinality(ConnectedFSocks) <= pool.maxFSocks

\* C39, as stated: the watcher of a session acts on that session only; when
\* it runs after fsConn was replaced by another session, its step neither
\* closes that session nor sets fsConn to nil.
C39_WatcherActsOnItsSession ==
    [][\A s \in Sessions :
          th[s].pc = "disc" /\ th'[s].pc # "disc" /\ fsConn # 0 /\ fsConn # s =>
              /\ fsConn' = fsConn
              /\ conn'[fsConn] = conn[fsConn]]_vars

\* no caller in PushFSock finds the channel it sends on full
ReleaseFindsRoom ==
    \A c \in PoolCallers :
       /\ pth[c].pc = "push_permit" => allowedConns < pool.maxFSocks
       /\ pth[c].pc = "push_idle" => Len(fSocks) < pool.maxFSocks

\* C40, as stated: for callers that release each FSock they acquired at most
\* once and release nil only after a failed PopFSock, the send inside
\* PushFSock always finds room in its channel.
C40_ReleaseNeverBlocks ==
    ~pool.nil /\ pcnt.stray = Cardinality(pcnt.late) => ReleaseFindsRoom

\* C40, as the code has it: the same for callers that release nil only after
\* a PopFSock whose NewFSock failed, once for each, and not after a PopFSock
\* that timed out; both channels then hold at most maxFSocks items together
\* with the FSocks checked out.
C40_ReleaseNeverBlocksForLostPermits ==
    ~pool.nil /\ pcnt.stray = 0 =>
        /\ ReleaseFindsRoom
        /\ allowedConns <= pool.maxFSocks
        /\ Len(fSocks) <= pool.maxFSocks

\* C40: a nil released after a failed NewFSock is about to take the last free
\* place of allowedConns
C40_Witness ==
    /\ ~pool.nil /\ pcnt.stray = 0
    /\ \E c \in PoolCallers :
          /\ pth[c].pc = "push_permit" /\ pth[c].arg = 0
          /\ allowedConns = pool.maxFSocks - 1

====
